---- MODULE Spec2Model ----
(***************************************************************************)
(* Model of the TPC Workshop Reporter (cecat/Workshop-Reporter):          *)
(* the bundle assembler (tpc_reporter/assembler.py), the bundle formatter *)
(* and report generator (tpc_reporter/generator.py), the hallucination    *)
(* checker (tpc_reporter/checker.py), the endpoint configuration          *)
(* (tpc_reporter/config_loader.py), the LLM client                        *)
(* (tpc_reporter/llm_client.py) and the commands run and generate-all     *)
(* (tpc_reporter/cli.py).                                                  *)
(*                                                                         *)
(* Representation of Python values:                                        *)
(*   str    a sequence of atoms; an atom is a one-character string, or a   *)
(*          literal fragment of a format template ("# Track: ")            *)
(*   None   NoneVal, a value that is no str                                *)
(*   list   a sequence                                                     *)
(*   dict   a record (a function on the key strings)                       *)
(*   file system: [csv, txt, json] functions from paths to contents; a     *)
(*          path exists exactly when it is in the DOMAIN; dirs is the set  *)
(*          of existing directories                                        *)
(***************************************************************************)
EXTENDS Integers, Sequences, FiniteSets, TLC

VARIABLES
    files,            \* the file system; in SpecClient the YAML files and the environment
    last,             \* the last completed call: [op, ...arguments, ret / raised]
    attendees,        \* merge loop: the attendee list (assembler.py:213)
    attendee_names,   \* merge loop: the lowercased names seen (assembler.py:264)
    merged,           \* merge loop: the authors merged so far, in order
    attendees0,       \* merge loop: the attendee list before the first merge
    fbundle,          \* formatter: the bundle being rendered
    runs,             \* formatter: the two renderings, [pc, i, lines] each
    calls,            \* the requests that reached the LLM, in order
    proc,             \* the running generate_report / check_report / command: [op, pc, ...];
                      \* in SpecParse the text given; in SpecClient what the client was built with
    config,           \* the Config object: [config, secrets, active_endpoint_name, active_endpoint]
    client            \* the LLMClient object: [client_params, endpoint_type, ...]

vars == <<files, last, attendees, attendee_names, merged, attendees0, fbundle, runs, calls, proc, config, client>>
mergeVars == <<attendees, attendee_names, merged, attendees0>>
fmtVars == <<fbundle, runs>>
llmVars == <<calls, proc, config, client>>

-----------------------------------------------------------------------------
(* Bounds *)

MaxTalks == 2        \* talks in a talk list passed to assemble_track_bundle
MaxRows == 2         \* data rows of a CSV file
MaxMerges == 3       \* authors merged in one run of the merge loop
MaxSessions == 2     \* sessions of a rendered bundle

-----------------------------------------------------------------------------
(* Python str and None *)

NoneVal == <<"<None>">>
EmptyStr == <<>>

\* bool(v) for v a str or None
Truthy(v) == v # NoneVal /\ v # EmptyStr

\* upper/lower pairs of the cased characters of the alphabet
CasePairs == { <<"A", "a">>, <<"B", "b">>, <<"C", "c">>, <<"L", "l">>,
               <<"O", "o">>, <<"T", "t">> }

IsUpperChar(c) == \E p \in CasePairs : p[1] = c
IsLowerChar(c) == \E p \in CasePairs : p[2] = c
IsCased(c) == IsUpperChar(c) \/ IsLowerChar(c)
IsSpace(c) == c = " "

ToLowerChar(c) == IF IsUpperChar(c) THEN (CHOOSE p \in CasePairs : p[1] = c)[2] ELSE c
ToUpperChar(c) == IF IsLowerChar(c) THEN (CHOOSE p \in CasePairs : p[2] = c)[1] ELSE c

\* str.lower()
Lower(s) == [i \in 1..Len(s) |-> ToLowerChar(s[i])]

\* str.strip()
RECURSIVE LStrip(_)
LStrip(s) == IF s # <<>> /\ IsSpace(Head(s)) THEN LStrip(Tail(s)) ELSE s

RECURSIVE RStrip(_)
RStrip(s) == IF s # <<>> /\ IsSpace(s[Len(s)]) THEN RStrip(SubSeq(s, 1, Len(s) - 1)) ELSE s

Strip(s) == RStrip(LStrip(s))

\* str.replace(old, new) for single characters
Replace(s, old, new) == [i \in 1..Len(s) |-> IF s[i] = old THEN new ELSE s[i]]

\* str.title(): a cased character is upper-cased when the character before it is
\* not cased, and lower-cased otherwise
Title(s) ==
    [i \in 1..Len(s) |->
        IF IsCased(s[i])
        THEN IF i > 1 /\ IsCased(s[i - 1]) THEN ToLowerChar(s[i]) ELSE ToUpperChar(s[i])
        ELSE s[i]]

\* pathlib: directory / name
PathJoin(dir, name) == dir \o <<"/">> \o name

Min(S) == CHOOSE m \in S : \A n \in S : m <= n

\* all sequences over S of length at most n
SeqsUpTo(S, n) == UNION { [1..k -> S] : k \in 0..n }

-----------------------------------------------------------------------------
(* assembler.py: the loaders *)

\* FileNotFoundError
FileNotFound == [raised |-> "FileNotFoundError"]
Returned(v) == [raised |-> "", value |-> v]

\* one talk of load_lightning_talks_csv (assembler.py:102-109)
TalkOfRow(row) ==
    [title |-> Strip(row[6]),
     authors |-> << [name |-> Strip(row[3]), affiliation |-> Strip(row[4])] >>,
     abstract |-> Strip(row[7]),
     track |-> Strip(row[8])]

\* a variant that keeps the rows without a title
RECURSIVE TalksOfRowsAnyTitle(_)
TalksOfRowsAnyTitle(rows) ==
    IF rows = <<>> THEN <<>>
    ELSE LET row == Head(rows) IN
         IF Len(row) < 8 THEN TalksOfRowsAnyTitle(Tail(rows))
         ELSE <<TalkOfRow(row)>> \o TalksOfRowsAnyTitle(Tail(rows))

\* the loop of load_lightning_talks_csv over the rows after the header
RECURSIVE TalksOfRows(_)
TalksOfRows(rows) ==
    IF rows = <<>> THEN <<>>
    ELSE LET row == Head(rows) IN
         IF Len(row) < 8 THEN TalksOfRows(Tail(rows))
         ELSE IF ~Truthy(Strip(row[6])) THEN TalksOfRows(Tail(rows))
         ELSE <<TalkOfRow(row)>> \o TalksOfRows(Tail(rows))

\* load_lightning_talks_csv(csv_path): the result, or the exception raised
load_lightning_talks_csv(fs, path) ==
    IF path \notin DOMAIN fs.csv THEN FileNotFound
    ELSE LET rows == fs.csv[path] IN
         Returned(TalksOfRows(IF rows = <<>> THEN <<>> ELSE Tail(rows)))

\* csv.DictReader's row.get(key): the field under the (last) header column named
\* key; None when the header has no such column or the row is too short
RowGet(header, row, key) ==
    LET idx == {i \in 1..Len(header) : header[i] = key} IN
    IF idx = {} THEN NoneVal
    ELSE LET i == CHOOSE m \in idx : \A n \in idx : n <= m IN
         IF i <= Len(row) THEN row[i] ELSE NoneVal

\* a or b or ... or "" over the header synonyms
RECURSIVE FirstTruthy(_, _, _)
FirstTruthy(header, row, keys) ==
    IF keys = <<>> THEN EmptyStr
    ELSE IF Truthy(RowGet(header, row, Head(keys))) THEN RowGet(header, row, Head(keys))
    ELSE FirstTruthy(header, row, Tail(keys))

NameHeaders == << <<"Name">>, <<"name">>, <<"Full Name">>, <<"Attendee">> >>
OrgHeaders == << <<"Organization">>, <<"organization">>, <<"Institution">>, <<"Affiliation">> >>

\* the loop of load_attendees_csv; DictReader skips rows without fields
RECURSIVE AttendeesOfRows(_, _)
AttendeesOfRows(header, rows) ==
    IF rows = <<>> THEN <<>>
    ELSE LET row == Head(rows)
             name == FirstTruthy(header, row, NameHeaders)
             org == FirstTruthy(header, row, OrgHeaders)
         IN IF row = <<>> THEN AttendeesOfRows(header, Tail(rows))
            ELSE IF Truthy(Strip(name))
            THEN << [name |-> Strip(name), organization |-> Strip(org)] >>
                     \o AttendeesOfRows(header, Tail(rows))
            ELSE AttendeesOfRows(header, Tail(rows))

\* load_attendees_csv(csv_path)
load_attendees_csv(fs, path) ==
    IF path \notin DOMAIN fs.csv THEN <<>>
    ELSE LET rows == fs.csv[path] IN
         IF rows = <<>> THEN <<>> ELSE AttendeesOfRows(Head(rows), Tail(rows))

\* load_notes_file(notes_path)
load_notes_file(fs, path) ==
    IF path \notin DOMAIN fs.txt THEN NoneVal ELSE fs.txt[path]

Exists(fs, path) ==
    path \in DOMAIN fs.csv \/ path \in DOMAIN fs.txt \/ path \in DOMAIN fs.json
        \/ path \in fs.dirs

-----------------------------------------------------------------------------
(* assembler.py: assemble_track_bundle *)

\* a variant that reports with the reserved severity
AssemblyWarningError(track_id, message) ==
    [track_id |-> track_id, session_id |-> NoneVal, message |-> message,
     severity |-> "error"]

AssemblyWarning(track_id, message) ==
    [track_id |-> track_id, session_id |-> NoneVal, message |-> message,
     severity |-> "warning"]

\* AssemblyResult.has_errors
has_errors(result) ==
    \E i \in 1..Len(result.warnings) : result.warnings[i].severity = "error"

\* AssemblyResult.has_warnings
has_warnings(result) == Len(result.warnings) > 0

\* [t for t in lightning_talks if t.get("track") == track_id]
TrackTalks(track_id, lightning_talks) ==
    SelectSeq(lightning_talks, LAMBDA t : t.track = track_id)

AttendeesCandidates(inputs_path, track_id) ==
    << PathJoin(inputs_path, <<"attendees.csv">>),
       PathJoin(inputs_path, <<"Attendees.csv">>),
       PathJoin(inputs_path, track_id \o <<"_attendees.csv">>) >>

NotesCandidates(inputs_path, track_id) ==
    << PathJoin(inputs_path, track_id \o <<"-notes.txt">>),
       PathJoin(inputs_path, track_id \o <<"_notes.txt">>),
       PathJoin(inputs_path, <<"notes.txt">>),
       PathJoin(inputs_path, track_id \o <<"-notes.md">>),
       PathJoin(inputs_path, <<"notes.md">>) >>

\* the index of the first candidate that exists, 0 when none does
FirstExisting(fs, candidates) ==
    LET idx == {i \in 1..Len(candidates) : Exists(fs, candidates[i])} IN
    IF idx = {} THEN 0 ELSE Min(idx)

\* for candidate in attendees_candidates: if candidate.exists(): load; break
ProbeAttendees(fs, inputs_path, track_id) ==
    LET cands == AttendeesCandidates(inputs_path, track_id)
        i == FirstExisting(fs, cands)
    IN IF i = 0 THEN <<>> ELSE load_attendees_csv(fs, cands[i])

\* a variant that starts from notes = "" instead of None
ProbeNotesEmpty(fs, inputs_path, track_id) ==
    LET cands == NotesCandidates(inputs_path, track_id)
        i == FirstExisting(fs, cands)
    IN IF i = 0 THEN EmptyStr ELSE load_notes_file(fs, cands[i])

\* a variant that passes over the candidates that hold no text
ProbeNotesFirstNonEmpty(fs, inputs_path, track_id) ==
    LET cands == NotesCandidates(inputs_path, track_id)
        idx == {i \in 1..Len(cands) : Exists(fs, cands[i]) /\ Truthy(load_notes_file(fs, cands[i]))}
    IN IF idx = {} THEN NoneVal ELSE load_notes_file(fs, cands[Min(idx)])

\* for candidate in notes_candidates: if candidate.exists(): load; break
ProbeNotes(fs, inputs_path, track_id) ==
    LET cands == NotesCandidates(inputs_path, track_id)
        i == FirstExisting(fs, cands)
    IN IF i = 0 THEN NoneVal ELSE load_notes_file(fs, cands[i])

\* {a["name"].lower() for a in attendees}
LowerNames(atts) == { Lower(atts[i].name) : i \in 1..Len(atts) }

\* the body of the merge loop for one author; st = [attendees, attendee_names].
\* A variant that compares the names as spelled.
MergeAuthorCaseSensitive(st, author) ==
    LET author_name == author.name IN
    IF Truthy(author_name) /\ author_name \notin { st.attendees[i].name : i \in 1..Len(st.attendees) }
    THEN [attendees |-> Append(st.attendees,
                               [name |-> author_name, organization |-> author.affiliation]),
          attendee_names |-> st.attendee_names \cup {Lower(author_name)}]
    ELSE st

\* the body of the merge loop for one author; st = [attendees, attendee_names]
MergeAuthor(st, author) ==
    LET author_name == author.name IN
    IF Truthy(author_name) /\ Lower(author_name) \notin st.attendee_names
    THEN [attendees |-> Append(st.attendees,
                               [name |-> author_name, organization |-> author.affiliation]),
          attendee_names |-> st.attendee_names \cup {Lower(author_name)}]
    ELSE st

\* the authors of the talks, in the order the nested loops visit them
RECURSIVE AuthorsOf(_)
AuthorsOf(talks) ==
    IF talks = <<>> THEN <<>> ELSE Head(talks).authors \o AuthorsOf(Tail(talks))

RECURSIVE MergeAuthors(_, _)
MergeAuthors(st, authors) ==
    IF authors = <<>> THEN st
    ELSE MergeAuthors(MergeAuthor(st, Head(authors)), Tail(authors))

\* the merged attendee list of assemble_track_bundle
MergedAttendees(atts, track_talks) ==
    MergeAuthors([attendees |-> atts, attendee_names |-> LowerNames(atts)],
                 AuthorsOf(track_talks)).attendees

\* a variant that leaves the notes out of the synthesized session
SynthSessionNoNotes(track_id, track_name, track_talks, atts, notes) ==
    [id |-> track_id \o <<"-session-1">>,
     title |-> track_name \o <<" Session">>,
     slot |-> NoneVal,
     leaders |-> <<>>,
     lightning_talks |-> track_talks,
     attendees |-> atts,
     notes |-> NoneVal]

\* the single session assemble_track_bundle creates (assembler.py:282-292)
SynthSession(track_id, track_name, track_talks, atts, notes) ==
    [id |-> track_id \o <<"-session-1">>,
     title |-> track_name \o <<" Session">>,
     slot |-> NoneVal,
     leaders |-> <<>>,
     lightning_talks |-> track_talks,
     attendees |-> atts,
     notes |-> notes]

\* a variant that keeps the caller's sessions whenever the argument was given
BuildSessionsGivenOnly(sessions, synthesized) ==
    IF sessions.given THEN sessions.val ELSE << synthesized >>

\* if sessions: assembled_sessions = sessions, else the one synthesized session;
\* sessions = [given, val]: None is given = FALSE
BuildSessions(sessions, synthesized) ==
    IF sessions.given /\ sessions.val # <<>> THEN sessions.val ELSE << synthesized >>

\* assemble_track_bundle; track_inputs_dir is a path or None
assemble_track_bundle(fs, track_id, track_name, lightning_talks, track_inputs_dir, room, sessions) ==
    LET track_talks == TrackTalks(track_id, lightning_talks)
        given == Truthy(track_inputs_dir)
        loaded == IF given THEN ProbeAttendees(fs, track_inputs_dir, track_id) ELSE <<>>
        notes == IF given THEN ProbeNotes(fs, track_inputs_dir, track_id) ELSE NoneVal
        w1 == IF track_talks = <<>>
              THEN << AssemblyWarning(track_id,
                          <<"No lightning talks found for track ">> \o track_id) >>
              ELSE <<>>
        w2 == IF given /\ loaded = <<>>
              THEN << AssemblyWarning(track_id,
                          <<"No attendees file found in ">> \o track_inputs_dir) >>
              ELSE <<>>
        w3 == IF given /\ ~Truthy(notes)
              THEN << AssemblyWarning(track_id,
                          <<"No notes file found in ">> \o track_inputs_dir) >>
              ELSE <<>>
        atts == MergedAttendees(loaded, track_talks)
        assembled_sessions ==
            BuildSessions(sessions, SynthSession(track_id, track_name, track_talks, atts, notes))
        sources == IF given THEN << <<"Track inputs: ">> \o track_inputs_dir >> ELSE <<>>
    IN [bundle |-> [track |-> [id |-> track_id, name |-> track_name, room |-> room],
                    sessions |-> assembled_sessions,
                    sources |-> sources],
        warnings |-> w1 \o w2 \o w3]

-----------------------------------------------------------------------------
(* Inputs of the assembler *)

\* track tags
T1 == <<"t", "-", "1">>
T2 == <<"a", "B", "-", "c">>
TrackIds == {T1, T2}

\* names and organizations
Al == <<"A", "l">>
al == <<"a", "l">>
Bo == <<"B", "o">>
OrgU == <<"U">>
OrgV == <<"V">>
OrgW == <<"W">>
OrgX == <<"X">>

\* talk authors: the affiliation tells the spellings of a name apart
Authors ==
    { [name |-> EmptyStr, affiliation |-> OrgV],
      [name |-> Al, affiliation |-> OrgU],
      [name |-> al, affiliation |-> OrgV],
      [name |-> Bo, affiliation |-> OrgU] }

\* talks as load_lightning_talks_csv returns them
Talks ==
    { [title |-> <<"K">>, authors |-> <<a>>, abstract |-> <<"x">>, track |-> t] :
        a \in Authors, t \in TrackIds }

TalkLists == SeqsUpTo(Talks, MaxTalks)

\* attendee files as csv.reader sees them: the header row, then the data rows
CsvHeader == << <<"Name">>, <<"Organization">> >>
AttendeeCsvs ==
    { << CsvHeader >>,
      << CsvHeader, <<Al, OrgW>>, <<al, OrgX>> >>,
      << CsvHeader, <<Bo, OrgW>> >> }

NotesTexts == { EmptyStr, <<"n">> }

InputsDir == <<"d">>

\* the candidate files that the inputs directory may hold
AttendeesFiles == { PathJoin(InputsDir, <<"attendees.csv">>) }
NotesFiles == { PathJoin(InputsDir, T1 \o <<"-notes.txt">>) }

\* all functions from a subset of S with at most n elements to T
PartialFns(S, n, T) == UNION { [D -> T] : D \in { X \in SUBSET S : Cardinality(X) <= n } }

\* the inputs directory: absent, or holding at most one attendees file and at most
\* one notes file (the probing order is the subject of other specifications)
AssembleFileSystems ==
    { [csv |-> <<>>, txt |-> <<>>, json |-> <<>>, dirs |-> {}] }
    \cup { [csv |-> c, txt |-> n, json |-> <<>>, dirs |-> {InputsDir}] :
             c \in PartialFns(AttendeesFiles, 1, AttendeeCsvs),
             n \in PartialFns(NotesFiles, 1, NotesTexts) }

\* a session the caller defines itself
PreSession ==
    [id |-> <<"s">>, title |-> <<"S">>, slot |-> <<"9">>, leaders |-> <<>>,
     lightning_talks |-> <<>>, attendees |-> <<>>, notes |-> NoneVal]

SessionArgs ==
    { [given |-> FALSE, val |-> <<>>], [given |-> TRUE, val |-> <<>>],
      [given |-> TRUE, val |-> << PreSession >>] }

TrackName == <<"N">>

-----------------------------------------------------------------------------
(* Specification SpecAssemble: calls of assemble_track_bundle *)

NoCall == [op |-> "none"]

MergeIdle ==
    attendees = <<>> /\ attendee_names = {} /\ merged = <<>> /\ attendees0 = <<>>
FormatIdle == fbundle = <<>> /\ runs = <<>>
LlmIdle == calls = <<>> /\ proc = NoCall /\ config = <<>> /\ client = <<>>

\* one call of assemble_track_bundle; the function keeps no state between calls,
\* so a behaviour makes one call
AssembleTrackBundle ==
    \E track_id \in TrackIds, lightning_talks \in TalkLists,
       track_inputs_dir \in {NoneVal, InputsDir}, sessions \in SessionArgs :
        /\ last.op = "none"
        /\ last' = [op |-> "assemble_track_bundle",
                    track_id |-> track_id,
                    track_name |-> TrackName,
                    lightning_talks |-> lightning_talks,
                    track_inputs_dir |-> track_inputs_dir,
                    sessions |-> sessions,
                    ret |-> assemble_track_bundle(files, track_id, TrackName,
                                lightning_talks, track_inputs_dir, NoneVal, sessions)]
        /\ UNCHANGED <<files, mergeVars, fmtVars, llmVars>>

InitAssemble ==
    /\ files \in AssembleFileSystems
    /\ last = NoCall
    /\ MergeIdle
    /\ FormatIdle
    /\ LlmIdle

NextAssemble == AssembleTrackBundle

SpecAssemble == InitAssemble /\ [][NextAssemble]_vars

-----------------------------------------------------------------------------
(* Properties of assemble_track_bundle, stated on the last call *)

Called == last.op = "assemble_track_bundle"

\* the elements of a sequence
Range(seq) == { seq[i] : i \in 1..Len(seq) }

\* the elements of seq at the indices in S, in order
RECURSIVE Pick(_, _)
Pick(seq, S) ==
    IF S = {} THEN <<>>
    ELSE LET m == CHOOSE i \in S : \A j \in S : i <= j IN
         <<seq[m]>> \o Pick(seq, S \ {m})

\* the talks of the list tagged with the track, in input order
Tagged(track_id, talks) == Pick(talks, {i \in 1..Len(talks) : talks[i].track = track_id})

\* all talks of all sessions of a bundle
RECURSIVE SessionTalks(_)
SessionTalks(sessions) ==
    IF sessions = <<>> THEN <<>>
    ELSE Head(sessions).lightning_talks \o SessionTalks(Tail(sessions))

\* the first path of the candidate list that is in dom, or <<>> when none is
RECURSIVE FirstPresent(_, _)
FirstPresent(cands, dom) ==
    IF cands = <<>> THEN <<>>
    ELSE IF Head(cands) \in dom THEN Head(cands) ELSE FirstPresent(Tail(cands), dom)

DirGiven == last.track_inputs_dir # NoneVal

\* the attendees file and the notes file the call has to read, <<>> when none
AttendeesFileOfCall ==
    IF DirGiven
    THEN FirstPresent(AttendeesCandidates(last.track_inputs_dir, last.track_id),
                      DOMAIN files.csv)
    ELSE <<>>
NotesFileOfCall ==
    IF DirGiven
    THEN FirstPresent(NotesCandidates(last.track_inputs_dir, last.track_id),
                      DOMAIN files.txt)
    ELSE <<>>

\* the records of the attendees file of the call: the rows with a name
LoadedOfCall ==
    IF AttendeesFileOfCall = <<>> THEN <<>>
    ELSE load_attendees_csv(files, AttendeesFileOfCall)

NotesOfCall == IF NotesFileOfCall = <<>> THEN NoneVal ELSE files.txt[NotesFileOfCall]

\* the authors of the track's talks
AuthorsOfCall ==
    LET talks == Tagged(last.track_id, last.lightning_talks) IN
    [i \in 1..Len(talks) |-> talks[i].authors[1]]

\* the attendee list the merge has to produce: the loaded attendees, then each named
\* author whose lowercased name occurs neither among them nor earlier among the authors
ExpectedAttendees(loaded, authors) ==
    loaded \o
    Pick([i \in 1..Len(authors) |->
             [name |-> authors[i].name, organization |-> authors[i].affiliation]],
         { i \in 1..Len(authors) :
             /\ authors[i].name # EmptyStr
             /\ \A k \in 1..Len(loaded) : Lower(loaded[k].name) # Lower(authors[i].name)
             /\ \A j \in 1..(i - 1) : Lower(authors[j].name) # Lower(authors[i].name) })

NoDuplicateNames(atts) ==
    \A i, j \in 1..Len(atts) : i # j => Lower(atts[i].name) # Lower(atts[j].name)

NoTalksWarnings(warnings) ==
    { i \in 1..Len(warnings) : Head(warnings[i].message) = "No lightning talks found for track " }
MentionsAttendees(w) == Head(w.message) = "No attendees file found in "
MentionsNotes(w) == Head(w.message) = "No notes file found in "

SessionsPredefined == last.sessions.given /\ last.sessions.val # <<>>

\* C1: assemble_track_bundle is total over its optional inputs: whatever the track
\* id, the talk list, the inputs directory (given or not) and the attendee and notes
\* files (present or absent), the result has a bundle with a 'track' record and a
\* 'sessions' list, and every warning has severity 'warning' (has_errors is false).
ThmC1 ==
    Called =>
        /\ {"bundle", "warnings"} \subseteq DOMAIN last.ret
        /\ {"track", "sessions"} \subseteq DOMAIN last.ret.bundle
        /\ last.ret.bundle.track.id = last.track_id
        /\ Len(last.ret.bundle.sessions) >= 1
        /\ \A i \in 1..Len(last.ret.warnings) : last.ret.warnings[i].severity = "warning"
        /\ ~has_errors(last.ret)

\* every optional input is missing: no talks, no attendees file, no notes file
WitC1 ==
    /\ Called
    /\ DirGiven
    /\ Len(last.ret.warnings) = 3
    /\ {"track", "sessions"} \subseteq DOMAIN last.ret.bundle

\* C2 (as claimed): the sessions of the bundle hold exactly the N talks tagged with
\* the track, with or without predefined sessions, and there is one 'No lightning
\* talks found' warning when N = 0 and none when N > 0.
CexC2 ==
    Called =>
        LET N == Len(Tagged(last.track_id, last.lightning_talks)) IN
        /\ SessionTalks(last.ret.bundle.sessions) = Tagged(last.track_id, last.lightning_talks)
        /\ Cardinality(NoTalksWarnings(last.ret.warnings)) = (IF N > 0 THEN 0 ELSE 1)

\* C3 (as claimed): each session's attendee list is the union of the attendees loaded
\* from the file and the authors of the track's talks, and no two of its entries have
\* names that are equal in lower case. Stated for the calls without predefined
\* sessions, where the session is the one the assembler builds.
CexC3 ==
    (Called /\ ~SessionsPredefined) =>
        \A i \in 1..Len(last.ret.bundle.sessions) :
            LET atts == last.ret.bundle.sessions[i].attendees IN
            /\ { Lower(a.name) : a \in Range(atts) } =
                 LowerNames(LoadedOfCall)
                   \cup { Lower(a.name) : a \in { b \in Range(AuthorsOfCall) : b.name # EmptyStr } }
            /\ NoDuplicateNames(atts)

ThmC6 ==
    (Called /\ ~SessionsPredefined) =>
        /\ Len(last.ret.bundle.sessions) = 1
        /\ last.ret.bundle.sessions[1].lightning_talks =
               Tagged(last.track_id, last.lightning_talks)
        /\ last.ret.bundle.sessions[1].attendees =
               ExpectedAttendees(LoadedOfCall, AuthorsOfCall)
        /\ last.ret.bundle.sessions[1].notes = NotesOfCall

\* two talks of the track, attendees from the file and from the talks, notes loaded
WitC6 ==
    /\ Called
    /\ ~last.sessions.given
    /\ Len(last.ret.bundle.sessions) = 1
    /\ Len(last.ret.bundle.sessions[1].lightning_talks) = 2
    /\ Len(LoadedOfCall) = 1
    /\ Len(last.ret.bundle.sessions[1].attendees) = 2
    /\ last.ret.bundle.sessions[1].notes = <<"n">>

AttendeesWarned == \E i \in 1..Len(last.ret.warnings) : MentionsAttendees(last.ret.warnings[i])
NotesWarned == \E i \in 1..Len(last.ret.warnings) : MentionsNotes(last.ret.warnings[i])

\* C26 (as claimed): the call warns 'No attendees file found' exactly when an inputs
\* directory is given and none of the attendee candidates exists, and 'No notes file
\* found' exactly when an inputs directory is given and none of the notes candidates
\* exists; a candidate that exists, even without records or text, gives no warning.
CexC26 ==
    Called =>
        /\ AttendeesWarned <=> (DirGiven /\ AttendeesFileOfCall = <<>>)
        /\ NotesWarned <=> (DirGiven /\ NotesFileOfCall = <<>>)

\* what does hold: the warnings tell that nothing was loaded, not that no file exists
WarnsWhenNothingLoaded ==
    Called =>
        /\ AttendeesWarned <=> (DirGiven /\ LoadedOfCall = <<>>)
        /\ NotesWarned <=> (DirGiven /\ ~Truthy(NotesOfCall))

-----------------------------------------------------------------------------
(* Specification SpecProbe: assemble_track_bundle on inputs directories that   *)
(* hold several of the candidate files                                         *)

MaxProbeFiles == 2    \* candidate files of a kind that exist in the inputs directory

ProbeNotesTexts == { EmptyStr, <<"n">>, <<"m">> }

\* the inputs directory holds up to MaxProbeFiles of the attendee candidates and of
\* the notes candidates of track T1, each with any content
ProbeFileSystems ==
    { [csv |-> c, txt |-> n, json |-> <<>>, dirs |-> {InputsDir}] :
        c \in PartialFns(Range(AttendeesCandidates(InputsDir, T1)), MaxProbeFiles, AttendeeCsvs),
        n \in PartialFns(Range(NotesCandidates(InputsDir, T1)), MaxProbeFiles, ProbeNotesTexts) }

ProbeTalkLists ==
    { <<>>, << [title |-> <<"K">>, authors |-> << [name |-> Bo, affiliation |-> OrgU] >>,
               abstract |-> <<"x">>, track |-> T1] >> }

InitProbe ==
    /\ files \in ProbeFileSystems
    /\ last = NoCall
    /\ MergeIdle
    /\ FormatIdle
    /\ LlmIdle

\* one call of assemble_track_bundle with the inputs directory
AssembleFromInputs ==
    \E track_id \in TrackIds, lightning_talks \in ProbeTalkLists :
        /\ last.op = "none"
        /\ last' = [op |-> "assemble_track_bundle",
                    track_id |-> track_id,
                    track_name |-> TrackName,
                    lightning_talks |-> lightning_talks,
                    track_inputs_dir |-> InputsDir,
                    sessions |-> [given |-> FALSE, val |-> <<>>],
                    ret |-> assemble_track_bundle(files, track_id, TrackName,
                                lightning_talks, InputsDir, NoneVal,
                                [given |-> FALSE, val |-> <<>>])]
        /\ UNCHANGED <<files, mergeVars, fmtVars, llmVars>>

NextProbe == AssembleFromInputs

SpecProbe == InitProbe /\ [][NextProbe]_vars

\* the candidate names in the order of probing
AttendeeNamesInOrder(track_id) ==
    << <<"attendees.csv">>, <<"Attendees.csv">>, track_id \o <<"_attendees.csv">> >>
NotesNamesInOrder(track_id) ==
    << track_id \o <<"-notes.txt">>, track_id \o <<"_notes.txt">>, <<"notes.txt">>,
       track_id \o <<"-notes.md">>, <<"notes.md">> >>

\* names[i] is the first of the names that is a file of the inputs directory
FirstIn(names, i, dom) ==
    /\ PathJoin(last.track_inputs_dir, names[i]) \in dom
    /\ \A j \in 1..(i - 1) : PathJoin(last.track_inputs_dir, names[j]) \notin dom

\* C27: the attendees of the session are those of the first existing file among
\* attendees.csv, Attendees.csv, <track_id>_attendees.csv (then the talk authors), and
\* its notes are the text of the first existing file among <track_id>-notes.txt,
\* <track_id>_notes.txt, notes.txt, <track_id>-notes.md, notes.md, whatever that first
\* file contains and whatever the later candidates contain
ThmC27 ==
    (Called /\ DirGiven /\ ~SessionsPredefined) =>
        LET session == last.ret.bundle.sessions[1]
            anames == AttendeeNamesInOrder(last.track_id)
            nnames == NotesNamesInOrder(last.track_id)
        IN /\ \A i \in 1..Len(anames) :
                FirstIn(anames, i, DOMAIN files.csv) =>
                    session.attendees =
                        ExpectedAttendees(
                            load_attendees_csv(files, PathJoin(last.track_inputs_dir, anames[i])),
                            AuthorsOfCall)
           /\ \A i \in 1..Len(nnames) :
                FirstIn(nnames, i, DOMAIN files.txt) =>
                    session.notes = files.txt[PathJoin(last.track_inputs_dir, nnames[i])]

\* attendees.csv exists without a record while Attendees.csv holds one, and the
\* track's _notes.txt exists empty while notes.md holds text: the session has no
\* attendee and empty notes
WitC27 ==
    /\ Called /\ last.track_id = T1 /\ last.lightning_talks = <<>>
    /\ files.csv = (PathJoin(InputsDir, <<"attendees.csv">>) :> << CsvHeader >>)
                     @@ (PathJoin(InputsDir, <<"Attendees.csv">>) :> << CsvHeader, <<Bo, OrgW>> >>)
    /\ files.txt = (PathJoin(InputsDir, T1 \o <<"_notes.txt">>) :> EmptyStr)
                     @@ (PathJoin(InputsDir, <<"notes.md">>) :> <<"n">>)
    /\ last.ret.bundle.sessions[1].attendees = <<>>
    /\ last.ret.bundle.sessions[1].notes = EmptyStr

-----------------------------------------------------------------------------
(* Specification SpecMerge: the author-into-attendee merge loop of               *)
(* assemble_track_bundle (assembler.py:263-275), one author per step            *)

EmptyFileSystem == [csv |-> <<>>, txt |-> <<>>, json |-> <<>>, dirs |-> {}]

\* attendee records as load_attendees_csv returns them
AttendeeRecords ==
    { [name |-> Al, organization |-> OrgW],
      [name |-> al, organization |-> OrgX],
      [name |-> Bo, organization |-> OrgW] }

\* attendees = the loaded list; attendee_names = {a["name"].lower() for a in attendees}
InitMerge ==
    /\ attendees \in SeqsUpTo(AttendeeRecords, MaxRows)
    /\ attendee_names = LowerNames(attendees)
    /\ attendees0 = attendees
    /\ merged = <<>>
    /\ files = EmptyFileSystem
    /\ last = NoCall
    /\ FormatIdle
    /\ LlmIdle

\* one iteration of `for author in talk.get("authors", [])`
MergeStep ==
    \E author \in Authors :
        /\ Len(merged) < MaxMerges
        /\ LET st == MergeAuthor([attendees |-> attendees, attendee_names |-> attendee_names],
                                 author)
           IN /\ attendees' = st.attendees
              /\ attendee_names' = st.attendee_names
        /\ merged' = Append(merged, author)
        /\ UNCHANGED <<attendees0, files, last, fmtVars, llmVars>>

NextMerge == MergeStep

SpecMerge == InitMerge /\ [][NextMerge]_vars

\* the named authors merged so far whose lowercased name the list did not hold
NewNames ==
    { Lower(a.name) : a \in { b \in Range(merged) : b.name # EmptyStr } }
        \ LowerNames(attendees0)

\* C4: the merge is idempotent under case-insensitive identity. The entries the list
\* had stay as they were (spelling and organization); the list grows by one entry
\* per distinct new lowercased name, so an author whose name already occurs changes
\* nothing and the same new name merged twice gives K+1 entries, not K+2; the entry
\* of a new name is the one of the first author merged under it.
ThmC4 ==
    /\ Len(attendees) >= Len(attendees0)
    /\ SubSeq(attendees, 1, Len(attendees0)) = attendees0
    /\ Len(attendees) = Len(attendees0) + Cardinality(NewNames)
    /\ (NewNames = {} => attendees = attendees0)
    /\ \A i \in (Len(attendees0) + 1)..Len(attendees) :
          LET first == Min({ j \in 1..Len(merged) :
                               Lower(merged[j].name) = Lower(attendees[i].name) })
          IN attendees[i] = [name |-> merged[first].name,
                             organization |-> merged[first].affiliation]

\* the same new name merged twice, in two spellings, into a list of size K > 0
WitC4 ==
    /\ Len(merged) = 2
    /\ merged[1].name = Al
    /\ merged[2].name = al
    /\ attendees0 # <<>>
    /\ Lower(Al) \notin LowerNames(attendees0)
    /\ Len(attendees) = Len(attendees0) + 1
    /\ attendees[Len(attendees)].organization = OrgU

-----------------------------------------------------------------------------
(* json.dump / json.load of a bundle. A JSON text is modelled by its value tree:   *)
(* null, string, array, or object with its members in the order written.          *)

JNull == [j |-> "null"]
JStr(s) == [j |-> "string", s |-> s]
JArr(items) == [j |-> "array", items |-> items]
JObj(keys, vals) == [j |-> "object", keys |-> keys, vals |-> vals]

\* a variant that writes None as the empty string
DumpOptStrEmpty(v) == IF v = NoneVal THEN JStr(EmptyStr) ELSE JStr(v)

\* a str, or None as null
DumpOptStr(v) == IF v = NoneVal THEN JNull ELSE JStr(v)

DumpAuthor(a) ==
    JObj(<<"name", "affiliation">>,
         [name |-> DumpOptStr(a.name), affiliation |-> DumpOptStr(a.affiliation)])

DumpTalk(t) ==
    JObj(<<"title", "authors", "abstract", "track">>,
         [title |-> DumpOptStr(t.title),
          authors |-> JArr([i \in 1..Len(t.authors) |-> DumpAuthor(t.authors[i])]),
          abstract |-> DumpOptStr(t.abstract),
          track |-> DumpOptStr(t.track)])

DumpAttendee(a) ==
    JObj(<<"name", "organization">>,
         [name |-> DumpOptStr(a.name), organization |-> DumpOptStr(a.organization)])

DumpSession(x) ==
    JObj(<<"id", "title", "slot", "leaders", "lightning_talks", "attendees", "notes">>,
         [id |-> DumpOptStr(x.id),
          title |-> DumpOptStr(x.title),
          slot |-> DumpOptStr(x.slot),
          leaders |-> JArr([i \in 1..Len(x.leaders) |-> DumpAuthor(x.leaders[i])]),
          lightning_talks |->
              JArr([i \in 1..Len(x.lightning_talks) |-> DumpTalk(x.lightning_talks[i])]),
          attendees |-> JArr([i \in 1..Len(x.attendees) |-> DumpAttendee(x.attendees[i])]),
          notes |-> DumpOptStr(x.notes)])

DumpTrack(t) ==
    JObj(<<"id", "name", "room">>,
         [id |-> DumpOptStr(t.id), name |-> DumpOptStr(t.name), room |-> DumpOptStr(t.room)])

\* json.dump(bundle): the members the dict holds when it is written
DumpBundle(b) ==
    JObj(SelectSeq(<<"track", "sessions", "sources", "_output_path">>,
                   LAMBDA k : k \in DOMAIN b),
         [k \in DOMAIN b |->
             CASE k = "track" -> DumpTrack(b[k])
               [] k = "sessions" -> JArr([i \in 1..Len(b[k]) |-> DumpSession(b[k][i])])
               [] k = "sources" -> JArr([i \in 1..Len(b[k]) |-> JStr(b[k][i])])
               [] OTHER -> JStr(b[k])])

\* json.load: null is None, a string is a str, an array a list, an object a dict
LoadOptStr(v) == IF v.j = "null" THEN NoneVal ELSE v.s

\* an object whose members are strings or null
LoadFlat(v) == [k \in Range(v.keys) |-> LoadOptStr(v.vals[k])]

LoadFlatList(v) == [i \in 1..Len(v.items) |-> LoadFlat(v.items[i])]

LoadTalk(v) ==
    [k \in Range(v.keys) |->
        IF k = "authors" THEN LoadFlatList(v.vals[k]) ELSE LoadOptStr(v.vals[k])]

LoadSession(v) ==
    [k \in Range(v.keys) |->
        CASE k = "leaders" -> LoadFlatList(v.vals[k])
          [] k = "lightning_talks" ->
                [i \in 1..Len(v.vals[k].items) |-> LoadTalk(v.vals[k].items[i])]
          [] k = "attendees" -> LoadFlatList(v.vals[k])
          [] OTHER -> LoadOptStr(v.vals[k])]

\* json.load of a bundle file
LoadBundle(v) ==
    [k \in Range(v.keys) |->
        CASE k = "track" -> LoadFlat(v.vals[k])
          [] k = "sessions" ->
                [i \in 1..Len(v.vals[k].items) |-> LoadSession(v.vals[k].items[i])]
          [] k = "sources" ->
                [i \in 1..Len(v.vals[k].items) |-> LoadOptStr(v.vals[k].items[i])]
          [] OTHER -> LoadOptStr(v.vals[k])]

-----------------------------------------------------------------------------
(* assembler.py: assemble_all_tracks *)

\* set(t.get("track") for t in all_talks if t.get("track"))
DiscoverTracks(all_talks) ==
    { all_talks[i].track : i \in { j \in 1..Len(all_talks) : Truthy(all_talks[j].track) } }

\* a variant of the default name that leaves the case of the tag as it is
DefaultTrackNameReplaceOnly(t) == Replace(t, "-", " ")

\* the default name of a track: t.replace("-", " ").title()
DefaultTrackName(t) == Title(Replace(t, "-", " "))

\* track_mapping.get(track_id, track_id); mapping = [given, map]
TrackNameOf(mapping, track_id) ==
    IF ~mapping.given THEN DefaultTrackName(track_id)
    ELSE IF track_id \in DOMAIN mapping.map THEN mapping.map[track_id] ELSE track_id

BundlePath(output_dir, track_id) == PathJoin(output_dir, track_id \o <<"_bundle.json">>)

\* the result of assemble_track_bundle for one discovered track
AssembleOne(fs, all_talks, base_dir, mapping, track_id) ==
    LET track_inputs_dir == PathJoin(base_dir, track_id) IN
    assemble_track_bundle(fs, track_id, TrackNameOf(mapping, track_id), all_talks,
                          IF track_inputs_dir \in fs.dirs THEN track_inputs_dir ELSE NoneVal,
                          NoneVal, [given |-> FALSE, val |-> <<>>])

\* assemble_all_tracks: [raised, value (track_id -> result), json (the bundle files
\* after the call), writes (how often each path was written), dirs]
assemble_all_tracks(fs, lightning_talks_path, track_inputs_base_dir, output_dir, mapping) ==
    LET loaded == load_lightning_talks_csv(fs, lightning_talks_path) IN
    IF loaded.raised # ""
    THEN [raised |-> loaded.raised, json |-> fs.json, dirs |-> fs.dirs, writes |-> <<>>]
    ELSE LET all_talks == loaded.value
             tracks == DiscoverTracks(all_talks)
             res == [t \in tracks |->
                        AssembleOne(fs, all_talks, track_inputs_base_dir, mapping, t)]
             paths == { BundlePath(output_dir, t) : t \in tracks }
             trackOf(p) == CHOOSE t \in tracks : BundlePath(output_dir, t) = p
         IN [raised |-> "",
             value |-> [t \in tracks |->
                          [bundle |-> [k \in DOMAIN res[t].bundle \cup {"_output_path"} |->
                                          IF k = "_output_path" THEN BundlePath(output_dir, t)
                                          ELSE res[t].bundle[k]],
                           warnings |-> res[t].warnings]],
             json |-> [p \in DOMAIN fs.json \cup paths |->
                          IF p \in paths THEN DumpBundle(res[trackOf(p)].bundle)
                          ELSE fs.json[p]],
             dirs |-> fs.dirs \cup {output_dir},
             writes |-> [p \in paths |-> Cardinality({ t \in tracks : BundlePath(output_dir, t) = p })]]

-----------------------------------------------------------------------------
(* Specification SpecAll: the loaders and assemble_all_tracks on a file system *)

TalksPath == <<"talks.csv">>
MissingPath == <<"missing">>
BaseDir == <<"in">>
OutDir == <<"out">>

\* a row of the talks file: ID, Status, Speaker, Institution, Email, Title,
\* Abstract, Track
TalkRow(speaker, title, track) ==
    << <<"1">>, <<"ok">>, speaker, OrgU, <<"@">>, title, <<"x">>, track >>

\* rows with and without surrounding blanks, with a blank title, with an empty
\* track tag, and a row that is too short
TalkRows ==
    { TalkRow(Al, <<"K">>, T1),
      TalkRow(<<" ">> \o al, <<"K", " ">>, T2 \o <<" ">>),
      TalkRow(Bo, <<" ">>, T1),
      TalkRow(Bo, <<"K">>, EmptyStr),
      << <<"1">>, <<"ok">>, Bo, OrgU, <<"@">>, <<"K">>, <<"x">> >> }

TalksHeader ==
    << <<"ID">>, <<"Status">>, <<"Speaker">>, <<"Institution">>, <<"Email">>, <<"Title">>,
       <<"Abstract">>, <<"Track">> >>

TalksCsvs == { <<TalksHeader>> \o rows : rows \in SeqsUpTo(TalkRows, MaxRows) }

\* attendee files: a blank name, a row without organization, blanks around a name,
\* the header synonyms
RawAttendeeCsvs ==
    { << CsvHeader, <<Al, OrgW>>, << <<" ">>, OrgW >>, << al >> >>,
      << << <<"Full Name">>, <<"Institution">> >>, << <<" ">> \o Bo \o <<" ">>, OrgX >> >>,
      << << <<"Organization">>, <<"Attendee">> >>, << OrgW, Bo >>, <<>> >> }

AttendeesPath(t) == PathJoin(PathJoin(BaseDir, t), <<"attendees.csv">>)
NotesPath(t) == PathJoin(PathJoin(BaseDir, t), <<"notes.txt">>)

AllFileSystems ==
    { [csv |-> talks @@ atts, txt |-> notes, json |-> <<>>, dirs |-> {BaseDir} \cup d1 \cup d2] :
        talks \in { <<>> } \cup { TalksPath :> c : c \in TalksCsvs },
        atts \in { <<>> } \cup { AttendeesPath(T1) :> c : c \in RawAttendeeCsvs },
        notes \in { <<>>, NotesPath(T1) :> <<"n">> },
        d1 \in { {PathJoin(BaseDir, T1)} },
        d2 \in { {}, {PathJoin(BaseDir, T2)} } }
    \cup
    { [csv |-> TalksPath :> c, txt |-> <<>>, json |-> <<>>, dirs |-> {BaseDir}] : c \in TalksCsvs }

\* a caller's mapping that names one of the tracks
TrackMappings ==
    { [given |-> FALSE, map |-> <<>>], [given |-> TRUE, map |-> (T1 :> <<"M">>)] }

InitAll ==
    /\ files \in AllFileSystems
    /\ last = NoCall
    /\ MergeIdle
    /\ FormatIdle
    /\ LlmIdle

LoadLightningTalksCsv ==
    \E csv_path \in {TalksPath, MissingPath} :
        /\ last.op = "none"
        /\ last' = [op |-> "load_lightning_talks_csv", csv_path |-> csv_path,
                    ret |-> load_lightning_talks_csv(files, csv_path)]
        /\ UNCHANGED <<files, mergeVars, fmtVars, llmVars>>

LoadAttendeesCsv ==
    \E csv_path \in {AttendeesPath(T1), MissingPath} :
        /\ last.op = "none"
        /\ last' = [op |-> "load_attendees_csv", csv_path |-> csv_path,
                    ret |-> load_attendees_csv(files, csv_path)]
        /\ UNCHANGED <<files, mergeVars, fmtVars, llmVars>>

LoadNotesFile ==
    \E notes_path \in {NotesPath(T1), MissingPath} :
        /\ last.op = "none"
        /\ last' = [op |-> "load_notes_file", notes_path |-> notes_path,
                    ret |-> load_notes_file(files, notes_path)]
        /\ UNCHANGED <<files, mergeVars, fmtVars, llmVars>>

AssembleAllTracks ==
    \E mapping \in TrackMappings :
        /\ last.op = "none"
        /\ LET r == assemble_all_tracks(files, TalksPath, BaseDir, OutDir, mapping) IN
           /\ last' = [op |-> "assemble_all_tracks", mapping |-> mapping,
                       ret |-> IF r.raised = "" THEN Returned(r.value) ELSE [raised |-> r.raised],
                       writes |-> r.writes]
           /\ files' = [files EXCEPT !.json = r.json, !.dirs = r.dirs]
        /\ UNCHANGED <<mergeVars, fmtVars, llmVars>>

NextAll == LoadLightningTalksCsv \/ LoadAttendeesCsv \/ LoadNotesFile \/ AssembleAllTracks

SpecAll == InitAll /\ [][NextAll]_vars

-----------------------------------------------------------------------------
(* Properties of the loaders and of assemble_all_tracks *)

AllReturned == last.op = "assemble_all_tracks" /\ last.ret.raised = ""

IsBlank(str) == \A i \in 1..Len(str) : str[i] = " "

\* the data rows of the talks file that have all eight columns and a title
GoodTalkRows ==
    LET rows == files.csv[TalksPath] IN
    { i \in 2..Len(rows) : Len(rows[i]) >= 8 /\ ~IsBlank(rows[i][6]) }

\* the distinct non-empty track tags of those rows
ExpectedTags ==
    { Strip(files.csv[TalksPath][i][8]) : i \in GoodTalkRows } \ { EmptyStr }

BundleFileOf(t) == OutDir \o <<"/">> \o t \o <<"_bundle.json">>

\* name is tag with '-' replaced by a space and title-cased: character by character,
\* a '-' became a space, a letter after a letter is lower case, any other letter is
\* upper case, and nothing else changed
IsTitleCasedTag(name, tag) ==
    /\ Len(name) = Len(tag)
    /\ \A i \in 1..Len(tag) :
          /\ tag[i] = "-" => name[i] = " "
          /\ (tag[i] # "-" /\ ~IsCased(tag[i])) => name[i] = tag[i]
          /\ IsCased(tag[i]) =>
                /\ ToLowerChar(name[i]) = ToLowerChar(tag[i])
                /\ IF i > 1 /\ IsCased(tag[i - 1])
                   THEN IsLowerChar(name[i]) ELSE IsUpperChar(name[i])

\* C7: every talk load_lightning_talks_csv returns has a non-empty title (rows with
\* fewer than 8 columns or without a title are skipped), every attendee
\* load_attendees_csv returns has a non-empty name, and so has every talk and every
\* attendee of a bundle assembled from the loaded files.
ThmC7 ==
    /\ (last.op = "load_lightning_talks_csv" /\ last.ret.raised = "") =>
          /\ \A i \in 1..Len(last.ret.value) : Truthy(last.ret.value[i].title)
          /\ Len(last.ret.value) = Cardinality(GoodTalkRows)
    /\ last.op = "load_attendees_csv" =>
          \A i \in 1..Len(last.ret) : Truthy(last.ret[i].name)
    /\ AllReturned =>
          \A t \in DOMAIN last.ret.value :
             \A i \in 1..Len(last.ret.value[t].bundle.sessions) :
                LET x == last.ret.value[t].bundle.sessions[i] IN
                /\ \A k \in 1..Len(x.lightning_talks) : Truthy(x.lightning_talks[k].title)
                /\ \A k \in 1..Len(x.attendees) : Truthy(x.attendees[k].name)

\* a bundle assembled from a talks file with a row without title and an attendees
\* file with a row without name
WitC7 ==
    /\ AllReturned
    /\ \E i \in 2..Len(files.csv[TalksPath]) :
          Len(files.csv[TalksPath][i]) >= 8 /\ IsBlank(files.csv[TalksPath][i][6])
    /\ AttendeesPath(T1) \in DOMAIN files.csv
    /\ \E i \in 2..Len(files.csv[AttendeesPath(T1)]) :
          files.csv[AttendeesPath(T1)][i] # <<>> /\ IsBlank(files.csv[AttendeesPath(T1)][i][1])
    /\ T1 \in DOMAIN last.ret.value
    /\ Len(last.ret.value[T1].bundle.sessions[1].attendees) = 2

\* C8: the keys assemble_all_tracks returns are the distinct non-empty track tags of
\* the loaded talks, it writes one file '<track_id>_bundle.json' per key and no
\* other, and without a name mapping each track is named by its tag with '-'
\* replaced by a space and title-cased.
ThmC8 ==
    AllReturned =>
        /\ DOMAIN last.ret.value = ExpectedTags
        /\ DOMAIN last.writes = { BundleFileOf(t) : t \in ExpectedTags }
        /\ \A p \in DOMAIN last.writes : last.writes[p] = 1 /\ p \in DOMAIN files.json
        /\ \A t \in DOMAIN last.ret.value :
              /\ last.ret.value[t].bundle.track.id = t
              /\ ~last.mapping.given =>
                    IsTitleCasedTag(last.ret.value[t].bundle.track.name, t)

\* two tracks discovered, named by default
WitC8 ==
    /\ AllReturned
    /\ ~last.mapping.given
    /\ DOMAIN last.ret.value = {T1, T2}
    /\ last.ret.value[T1].bundle.track.name = <<"T", " ", "1">>
    /\ last.ret.value[T2].bundle.track.name = <<"A", "b", " ", "C">>
    /\ Cardinality(DOMAIN files.json) = 2

\* C9 (as claimed): the bundle file deserializes to the very bundle that
\* assemble_all_tracks returns for the track.
CexC9 ==
    AllReturned =>
        \A t \in DOMAIN last.ret.value :
            LoadBundle(files.json[BundleFileOf(t)]) = last.ret.value[t].bundle

\* C9 (amended): the bundle file deserializes to the returned bundle without its
\* '_output_path' entry, which holds the path of the file and is added after the
\* file is written; all other keys and values are identical.
ThmC9 ==
    AllReturned =>
        \A t \in DOMAIN last.ret.value :
            LET b == last.ret.value[t].bundle IN
            /\ DOMAIN b = {"track", "sessions", "sources", "_output_path"}
            /\ b["_output_path"] = BundleFileOf(t)
            /\ LoadBundle(files.json[BundleFileOf(t)]) =
                   [k \in DOMAIN b \ {"_output_path"} |-> b[k]]

\* a bundle with talks, attendees, notes and None values written and returned
WitC9 ==
    /\ AllReturned
    /\ T1 \in DOMAIN last.ret.value
    /\ LET x == last.ret.value[T1].bundle.sessions[1] IN
          /\ x.lightning_talks # <<>>
          /\ x.attendees # <<>>
          /\ x.notes = <<"n">>
          /\ x.slot = NoneVal
    /\ BundleFileOf(T1) \in DOMAIN files.json

-----------------------------------------------------------------------------
(* generator.py: format_track_bundle *)
(* A list entry that is a plain string instead of a dict is [plain |-> str]. *)

\* dict.get(key, default)
Get(d, key, default) == IF key \in DOMAIN d THEN d[key] ELSE default

\* isinstance(x, dict)
IsDict(x) == "plain" \notin DOMAIN x

\* the text an f-string puts for a str or None
Str(v) == IF v = NoneVal THEN <<"N", "o", "n", "e">> ELSE v

\* sep.join(strs)
RECURSIVE JoinStrs(_, _)
JoinStrs(sep, strs) ==
    IF strs = <<>> THEN EmptyStr
    ELSE IF Len(strs) = 1 THEN Head(strs)
    ELSE Head(strs) \o sep \o JoinStrs(sep, Tail(strs))

\* the entries of a leaders or authors list as strings (generator.py:90-96, 109-115)
PersonStrs(people, unknown) ==
    IF IsDict(people[1])
    THEN [i \in 1..Len(people) |->
             Str(Get(people[i], "name", unknown)) \o <<" (">>
                 \o Str(Get(people[i], "affiliation", EmptyStr)) \o <<")">>]
    ELSE [i \in 1..Len(people) |-> people[i].plain]

\* generator.py:75-79
TrackLines(bundle) ==
    LET track == Get(bundle, "track", <<>>) IN
    << <<"# Track: ">> \o Str(Get(track, "name", <<"Unknown">>)) >>
    \o (IF Truthy(Get(track, "room", NoneVal)) THEN << <<"Room: ">> \o track.room >> ELSE <<>>)
    \o << EmptyStr >>

\* generator.py:104-121, one talk
TalkLines(talk) ==
    IF IsDict(talk)
    THEN << <<"**">> \o Str(Get(talk, "title", <<"Untitled">>)) \o <<"**">> >>
         \o (IF Get(talk, "authors", <<>>) # <<>>
             THEN << <<"Authors: ">> \o JoinStrs(<<", ">>, PersonStrs(talk.authors, EmptyStr)) >>
             ELSE <<>>)
         \o (IF Truthy(Get(talk, "abstract", NoneVal))
             THEN << <<"Abstract: ">> \o talk.abstract >>
             ELSE <<>>)
         \o << EmptyStr >>
    ELSE << <<"- ">> \o talk.plain >>

RECURSIVE TalksLines(_)
TalksLines(talks) ==
    IF talks = <<>> THEN <<>> ELSE TalkLines(Head(talks)) \o TalksLines(Tail(talks))

\* generator.py:128-135, one attendee
AttendeeLine(attendee) ==
    IF IsDict(attendee)
    THEN <<"- ">> \o Str(Get(attendee, "name", <<"Unknown">>)) \o <<" (">>
             \o Str(Get(attendee, "organization", EmptyStr)) \o <<")">>
    ELSE <<"- ">> \o attendee.plain

\* a variant that puts the attendees of a session before its lightning talks
SessionLinesAttendeesFirst(session) ==
    LET leaders == Get(session, "leaders", <<>>)
        talks == Get(session, "lightning_talks", <<>>)
        atts == Get(session, "attendees", <<>>)
        notes == Get(session, "notes", NoneVal)
    IN << <<"## Session: ">> \o Str(Get(session, "title", <<"Untitled">>)),
          <<"Time: ">> \o Str(Get(session, "slot", <<"Not specified">>)) >>
       \o (IF leaders # <<>>
           THEN << <<"Leaders: ">> \o JoinStrs(<<", ">>, PersonStrs(leaders, <<"Unknown">>)) >>
           ELSE <<>>)
       \o << EmptyStr >>
       \o (IF atts # <<>>
           THEN << <<"### Attendees">> >>
                \o [i \in 1..Len(atts) |-> AttendeeLine(atts[i])] \o << EmptyStr >>
           ELSE <<>>)
       \o (IF talks # <<>>
           THEN << <<"### Lightning Talks">> >> \o TalksLines(talks) \o << EmptyStr >>
           ELSE <<>>)
       \o (IF Truthy(notes)
           THEN << <<"### Discussion Notes">>, notes, EmptyStr >>
           ELSE <<>>)

\* generator.py:84-143, one session
SessionLines(session) ==
    LET leaders == Get(session, "leaders", <<>>)
        talks == Get(session, "lightning_talks", <<>>)
        atts == Get(session, "attendees", <<>>)
        notes == Get(session, "notes", NoneVal)
    IN << <<"## Session: ">> \o Str(Get(session, "title", <<"Untitled">>)),
          <<"Time: ">> \o Str(Get(session, "slot", <<"Not specified">>)) >>
       \o (IF leaders # <<>>
           THEN << <<"Leaders: ">> \o JoinStrs(<<", ">>, PersonStrs(leaders, <<"Unknown">>)) >>
           ELSE <<>>)
       \o << EmptyStr >>
       \o (IF talks # <<>>
           THEN << <<"### Lightning Talks">> >> \o TalksLines(talks) \o << EmptyStr >>
           ELSE <<>>)
       \o (IF atts # <<>>
           THEN << <<"### Attendees">> >>
                \o [i \in 1..Len(atts) |-> AttendeeLine(atts[i])] \o << EmptyStr >>
           ELSE <<>>)
       \o (IF Truthy(notes)
           THEN << <<"### Discussion Notes">>, notes, EmptyStr >>
           ELSE <<>>)

\* generator.py:146-150
SourcesLines(bundle) ==
    LET sources == Get(bundle, "sources", <<>>) IN
    IF sources # <<>>
    THEN << <<"## Data Sources">> >> \o [i \in 1..Len(sources) |-> <<"- ">> \o sources[i]]
    ELSE <<>>

RECURSIVE SessionsLines(_)
SessionsLines(sessions) ==
    IF sessions = <<>> THEN <<>>
    ELSE SessionLines(Head(sessions)) \o SessionsLines(Tail(sessions))

\* format_track_bundle(bundle)
format_track_bundle(bundle) ==
    JoinStrs(<<"\n">>, TrackLines(bundle) \o SessionsLines(Get(bundle, "sessions", <<>>))
                          \o SourcesLines(bundle))

-----------------------------------------------------------------------------
(* Specification SpecFormat: two renderings of one bundle, stepped side by side. *)
(* A rendering goes through the track header, the sessions one by one, and the    *)
(* sources, and then joins its lines.                                             *)

FormatTalk ==
    [title |-> <<"K">>, authors |-> << [name |-> Al, affiliation |-> OrgU] >>,
     abstract |-> <<"x">>, track |-> T1]

FormatSessions ==
    { SynthSession(T1, <<"N">>, << FormatTalk >>,
                   << [name |-> Bo, organization |-> OrgW] >>, <<"n">>),
      [id |-> <<"s">>, title |-> <<"S">>, slot |-> <<"9">>,
       leaders |-> << [name |-> Bo, affiliation |-> OrgU] >>,
       lightning_talks |-> << [plain |-> <<"K">>] >>,
       attendees |-> << [plain |-> Al] >>, notes |-> NoneVal],
      [title |-> <<"S">>, leaders |-> << [plain |-> Al], [plain |-> Bo] >>],
      [id |-> <<"m">>, title |-> <<"M">>, slot |-> <<"9">>,
       leaders |-> << [name |-> Al, affiliation |-> OrgU], [name |-> Bo, affiliation |-> OrgV] >>,
       lightning_talks |-> << FormatTalk,
                              [title |-> <<"J">>, authors |-> <<>>,
                               abstract |-> EmptyStr, track |-> T1] >>,
       attendees |-> << [name |-> Bo, organization |-> OrgW], [plain |-> Al] >>,
       notes |-> <<"n">>] }

FormatBundles ==
    { [track |-> [id |-> T1, name |-> <<"N">>, room |-> room],
       sessions |-> sessions, sources |-> sources] :
        room \in { NoneVal, <<"R">> },
        sessions \in SeqsUpTo(FormatSessions, MaxSessions),
        sources \in { <<>>, << <<"Track inputs: ">> \o InputsDir >> } }

InitFormat ==
    /\ fbundle \in FormatBundles
    /\ runs = [r \in 1..2 |-> [pc |-> "track", i |-> 1, lines |-> <<>>, out |-> EmptyStr]]
    /\ last = [op |-> "format_track_bundle", bundle |-> fbundle]
    /\ files = EmptyFileSystem
    /\ MergeIdle
    /\ LlmIdle

\* a variant that takes each session off the bundle as it renders it
FormatStepConsuming(r) ==
    LET run == runs[r]
        sessions == Get(fbundle, "sessions", <<>>)
    IN \/ /\ run.pc = "track"
          /\ runs' = [runs EXCEPT ![r] = [run EXCEPT !.lines = TrackLines(fbundle),
                                                     !.pc = "sessions"]]
          /\ UNCHANGED fbundle
       \/ /\ run.pc = "sessions" /\ sessions # <<>>
          /\ runs' = [runs EXCEPT ![r] =
                         [run EXCEPT !.lines = run.lines \o SessionLines(Head(sessions)),
                                     !.i = run.i + 1]]
          /\ fbundle' = [fbundle EXCEPT !.sessions = Tail(sessions)]
       \/ /\ run.pc = "sessions" /\ sessions = <<>>
          /\ runs' = [runs EXCEPT ![r] =
                         [run EXCEPT !.lines = run.lines \o SourcesLines(fbundle),
                                     !.out = JoinStrs(<<"\n">>, run.lines \o SourcesLines(fbundle)),
                                     !.pc = "done"]]
          /\ UNCHANGED fbundle

\* one step of rendering r of format_track_bundle(fbundle)
FormatStep(r) ==
    LET run == runs[r]
        sessions == Get(fbundle, "sessions", <<>>)
    IN /\ \/ /\ run.pc = "track"
             /\ runs' = [runs EXCEPT ![r] = [run EXCEPT !.lines = TrackLines(fbundle),
                                                        !.pc = "sessions"]]
          \/ /\ run.pc = "sessions" /\ run.i <= Len(sessions)
             /\ runs' = [runs EXCEPT ![r] =
                            [run EXCEPT !.lines = run.lines \o SessionLines(sessions[run.i]),
                                        !.i = run.i + 1]]
          \/ /\ run.pc = "sessions" /\ run.i > Len(sessions)
             /\ runs' = [runs EXCEPT ![r] =
                            [run EXCEPT !.lines = run.lines \o SourcesLines(fbundle),
                                        !.out = JoinStrs(<<"\n">>, run.lines \o SourcesLines(fbundle)),
                                        !.pc = "done"]]
       /\ UNCHANGED fbundle

Format == \E r \in 1..2 : FormatStep(r) /\ UNCHANGED <<files, last, mergeVars, llmVars>>

NextFormat == Format

SpecFormat == InitFormat /\ [][NextFormat]_vars

-----------------------------------------------------------------------------
(* The order of the rendered lines *)

\* the indices in lo..hi of the lines that begin with the marker
Marked(L, lo, hi, marker) == { i \in lo..hi : L[i] # <<>> /\ L[i][1] = marker }

\* the k-th smallest number of a set
RECURSIVE Kth(_, _)
Kth(S, k) == IF k = 1 THEN Min(S) ELSE Kth(S \ {Min(S)}, k - 1)

\* every index of A is before every index of B
Before(A, B) == \A a \in A, b \in B : a < b

\* the text of a leader or an author
PersonText(p, unknown) ==
    IF "plain" \in DOMAIN p THEN p.plain
    ELSE Str(Get(p, "name", unknown)) \o <<" (">> \o Str(Get(p, "affiliation", EmptyStr)) \o <<")">>

\* the line of a list of leaders or authors: the persons in list order
PersonsLine(label, people, unknown) ==
    <<label>> \o JoinStrs(<<", ">>, [i \in 1..Len(people) |-> PersonText(people[i], unknown)])

\* the lines of talk number k begin at index e: title, then authors, then abstract
TalkInOrder(L, e, talk) ==
    IF "plain" \in DOMAIN talk THEN L[e] = <<"- ">> \o talk.plain
    ELSE LET authors == Get(talk, "authors", <<>>)
             abstract == Get(talk, "abstract", NoneVal)
             a == IF authors = <<>> THEN 0 ELSE 1
         IN /\ L[e] = <<"**">> \o Str(Get(talk, "title", <<"Untitled">>)) \o <<"**">>
            /\ authors # <<>> => L[e + 1] = PersonsLine("Authors: ", authors, EmptyStr)
            /\ Truthy(abstract) => L[e + 1 + a] = <<"Abstract: ">> \o abstract

\* the lines lo..hi are those of one session: header, time, leaders, then the
\* lightning talks in list order, then the attendees in list order, then the notes
SessionInOrder(L, lo, hi, session) ==
    LET leaders == Get(session, "leaders", <<>>)
        talks == Get(session, "lightning_talks", <<>>)
        atts == Get(session, "attendees", <<>>)
        notes == Get(session, "notes", NoneVal)
        leadersAt == Marked(L, lo, hi, "Leaders: ")
        talksAt == Marked(L, lo, hi, "### Lightning Talks")
        attsAt == Marked(L, lo, hi, "### Attendees")
        notesAt == Marked(L, lo, hi, "### Discussion Notes")
        talksEnd == Min(attsAt \cup notesAt \cup {hi + 1})
        entries == IF talksAt = {} THEN {}
                   ELSE Marked(L, Min(talksAt) + 1, talksEnd - 1, "**")
                        \cup Marked(L, Min(talksAt) + 1, talksEnd - 1, "- ")
    IN /\ L[lo] = <<"## Session: ">> \o Str(Get(session, "title", <<"Untitled">>))
       /\ L[lo + 1][1] = "Time: "
       /\ leadersAt = IF leaders = <<>> THEN {} ELSE {lo + 2}
       /\ leaders # <<>> => L[lo + 2] = PersonsLine("Leaders: ", leaders, <<"Unknown">>)
       /\ Cardinality(talksAt) = IF talks = <<>> THEN 0 ELSE 1
       /\ Cardinality(attsAt) = IF atts = <<>> THEN 0 ELSE 1
       /\ Cardinality(notesAt) = IF Truthy(notes) THEN 1 ELSE 0
       /\ Before(leadersAt, talksAt \cup attsAt \cup notesAt)
       /\ Before(talksAt, attsAt \cup notesAt)
       /\ Before(attsAt, notesAt)
       /\ Cardinality(entries) = Len(talks)
       /\ \A k \in 1..Len(talks) : TalkInOrder(L, Kth(entries, k), talks[k])
       /\ Marked(L, lo, hi, "Authors: ") \cup Marked(L, lo, hi, "Abstract: ")
              \subseteq (IF talksAt = {} THEN {} ELSE Min(talksAt)..(talksEnd - 1))
       /\ \A k \in 1..Len(atts) :
              L[Min(attsAt) + k] =
                  IF "plain" \in DOMAIN atts[k] THEN <<"- ">> \o atts[k].plain
                  ELSE <<"- ">> \o Str(Get(atts[k], "name", <<"Unknown">>)) \o <<" (">>
                           \o Str(Get(atts[k], "organization", EmptyStr)) \o <<")">>
       /\ attsAt # {} => Before({Min(attsAt) + Len(atts)}, notesAt)
       /\ Truthy(notes) => L[Min(notesAt) + 1] = notes

\* C11: format_track_bundle is order-preserving: the track line comes first, then the
\* sessions in bundle order, each with its leaders, then its lightning talks (title,
\* authors, abstract, in list order), then its attendees in list order, then its
\* notes; the sources come after all sessions in list order, and the lines of a
\* later session all come after the lines of an earlier one.
ThmC11 ==
    \A r \in DOMAIN runs :
        runs[r].pc = "done" =>
            LET L == runs[r].lines
                S == Get(fbundle, "sessions", <<>>)
                sources == Get(fbundle, "sources", <<>>)
                heads == Marked(L, 1, Len(L), "## Session: ")
                sourcesAt == Marked(L, 1, Len(L), "## Data Sources")
                end == IF sourcesAt = {} THEN Len(L) ELSE Min(sourcesAt) - 1
            IN /\ Marked(L, 1, Len(L), "# Track: ") = {1}
               /\ Cardinality(heads) = Len(S)
               /\ Before(heads, sourcesAt)
               /\ \A k \in 1..Len(S) :
                      SessionInOrder(L, Kth(heads, k),
                                     IF k < Len(S) THEN Kth(heads, k + 1) - 1 ELSE end, S[k])
               /\ Cardinality(sourcesAt) = IF sources = <<>> THEN 0 ELSE 1
               /\ sources # <<>> =>
                      /\ Len(L) = Min(sourcesAt) + Len(sources)
                      /\ \A j \in 1..Len(sources) : L[Min(sourcesAt) + j] = <<"- ">> \o sources[j]
               /\ runs[r].out = JoinStrs(<<"\n">>, L)

\* a rendering has ended of a bundle with two different sessions, one of them with
\* two leaders, two talks, two attendees and notes, and with a sources list
WitC11 ==
    /\ last.op = "format_track_bundle"
    /\ runs[1].pc = "done"
    /\ Len(fbundle.sessions) = 2
    /\ fbundle.sessions[1] # fbundle.sessions[2]
    /\ \E k \in 1..2 :
          /\ Len(Get(fbundle.sessions[k], "leaders", <<>>)) = 2
          /\ Len(Get(fbundle.sessions[k], "lightning_talks", <<>>)) = 2
          /\ Len(Get(fbundle.sessions[k], "attendees", <<>>)) = 2
          /\ Truthy(Get(fbundle.sessions[k], "notes", NoneVal))
    /\ fbundle.sources # <<>>

\* the session has no time slot: no 'slot' field, or one that is None
NoSlot(session) == "slot" \notin DOMAIN session \/ session.slot = NoneVal

\* the line after the heading of session k in the lines of a rendering
TimeLine(L, k) == L[Kth(Marked(L, 1, Len(L), "## Session: "), k) + 1]

\* C30 (as claimed): a session without a time slot is rendered with the line
\* 'Time: Not specified', when it has no slot field and when its slot is null, as in
\* every session that assemble_track_bundle synthesizes
CexC30 ==
    \A r \in DOMAIN runs :
        runs[r].pc = "done" =>
            \A k \in 1..Len(Get(fbundle, "sessions", <<>>)) :
                NoSlot(fbundle.sessions[k]) =>
                    TimeLine(runs[r].lines, k) = <<"Time: ", "Not specified">>

\* what does hold: the default is rendered for a session without the field only; a
\* null slot is rendered as the text of None
SlotRendering ==
    \A r \in DOMAIN runs :
        runs[r].pc = "done" =>
            \A k \in 1..Len(Get(fbundle, "sessions", <<>>)) :
                TimeLine(runs[r].lines, k) =
                    IF "slot" \notin DOMAIN fbundle.sessions[k]
                    THEN <<"Time: ", "Not specified">>
                    ELSE <<"Time: ">> \o Str(fbundle.sessions[k].slot)

-----------------------------------------------------------------------------
(* checker.py: extract_flags and parse_verification_summary *)
(* A text is a sequence of atoms; the fixed words of the patterns ("[FLAG:", the *)
(* labels, the status literals) are one atom each, everything else is one      *)
(* character per atom.                                                           *)

FlagOpen == "[FLAG:"
Quote == "\""
Close == "]"

\* the number of whitespace atoms of text from position i on (\s*, \s+)
WsRun(text, i) ==
    IF i > Len(text) THEN 0 ELSE
    CHOOSE n \in 0..(Len(text) + 1 - i) :
        /\ \A j \in i..(i + n - 1) : IsSpace(text[j])
        /\ (i + n > Len(text) \/ ~IsSpace(text[i + n]))

\* the number of atoms other than the quote from position i on ([^"]+)
NonQuoteRun(text, i) ==
    IF i > Len(text) THEN 0 ELSE
    CHOOSE n \in 0..(Len(text) + 1 - i) :
        /\ \A j \in i..(i + n - 1) : text[j] # Quote
        /\ (i + n > Len(text) \/ text[i + n] = Quote)

\* [^"\]]
IsTypeChar(c) == c # Quote /\ c # Close

At(text, i, c) == i <= Len(text) /\ text[i] = c

\* (?:\s+"([^"]+)")?\] tried at position p with the group taken: whitespace,
\* quote, description, quote, closing bracket
GroupAt(text, p) ==
    LET w == WsRun(text, p)
        q == p + w
        d == NonQuoteRun(text, q + 1)
    IN [ok |-> w >= 1 /\ At(text, q, Quote) /\ d >= 1
                 /\ At(text, q + d + 1, Quote) /\ At(text, q + d + 2, Close),
        description |-> SubSeq(text, q + 1, q + d),
        end |-> q + d + 2]

\* the pairs <<k, m>> for which the pattern matches at position i with \s* taking
\* k atoms and the type group taking m atoms
FlagChoices(text, i) ==
    { c \in (0..WsRun(text, i + 1)) \X (1..Len(text)) :
        LET p == i + 1 + c[1] + c[2] IN
        /\ p <= Len(text)
        /\ \A j \in (i + 1 + c[1])..(p - 1) : IsTypeChar(text[j])
        /\ (GroupAt(text, p).ok \/ text[p] = Close) }

\* the match of the pattern at position i: \s* is greedy (most whitespace first),
\* the type group is lazy (fewest atoms first), the optional group is tried first
FlagMatchAt(text, i) ==
    IF ~At(text, i, FlagOpen) \/ FlagChoices(text, i) = {} THEN [ok |-> FALSE]
    ELSE LET S == FlagChoices(text, i)
             c == CHOOSE x \in S : \A y \in S :
                      x[1] > y[1] \/ (x[1] = y[1] /\ x[2] <= y[2])
             p == i + 1 + c[1] + c[2]
             g == GroupAt(text, p)
         IN [ok |-> TRUE,
             type |-> SubSeq(text, i + 1 + c[1], p - 1),
             description |-> IF g.ok THEN g.description ELSE EmptyStr,
             end |-> IF g.ok THEN g.end ELSE p]

\* re.findall from position i: the matches from left to right, not overlapping,
\* each made into a flag record (checker.py:98-104)
RECURSIVE FindAllFlags(_, _)
FindAllFlags(text, i) ==
    IF i > Len(text) THEN <<>>
    ELSE LET m == FlagMatchAt(text, i) IN
         IF m.ok
         THEN << [type |-> Strip(m.type), description |-> m.description] >>
              \o FindAllFlags(text, m.end + 1)
         ELSE FindAllFlags(text, i + 1)

extract_flags(checked_report) == FindAllFlags(checked_report, 1)

Digits == <<"0", "1", "2", "3", "4", "5", "6", "7", "8", "9">>

\* the longest numeral that int() converts (sys.int_info.default_max_str_digits)
IntMaxStrDigits == 4300

\* one atom for a run of IntMaxStrDigits + 1 digits
LongNumeral == "<4301 digits>"

IsDigit(c) == c = LongNumeral \/ \E d \in 1..10 : Digits[d] = c
DigitVal(c) == (CHOOSE d \in 1..10 : Digits[d] = c) - 1

\* the number of digits of a numeral
RECURSIVE DigitCount(_)
DigitCount(ds) ==
    IF ds = <<>> THEN 0
    ELSE (IF Head(ds) = LongNumeral THEN IntMaxStrDigits + 1 ELSE 1) + DigitCount(Tail(ds))

\* the number of digits from position i on (\d+)
DigitRun(text, i) ==
    IF i > Len(text) THEN 0 ELSE
    CHOOSE n \in 0..(Len(text) + 1 - i) :
        /\ \A j \in i..(i + n - 1) : IsDigit(text[j])
        /\ (i + n > Len(text) \/ ~IsDigit(text[i + n]))

\* int(digits)
RECURSIVE IntOf(_)
IntOf(ds) == IF ds = <<>> THEN 0 ELSE 10 * IntOf(SubSeq(ds, 1, Len(ds) - 1)) + DigitVal(ds[Len(ds)])

TotalLabel == "**Total flags:**"
StatusLabel == "**Verification status:**"
StatusLiterals == {"PASS", "REVIEW NEEDED", "MAJOR ISSUES"}
BreakdownPatterns ==
    << <<"Unknown persons:", "unknown_persons">>,
       <<"Unknown organizations:", "unknown_organizations">>,
       <<"Unverified talks:", "unverified_talks">>,
       <<"Unsupported claims:", "unsupported_claims">>,
       <<"Other issues:", "other_issues">> >>

\* re.search(label \s* (\d+)): the positions where the pattern matches
CountMatches(text, label) ==
    { i \in 1..Len(text) :
        /\ text[i] = label
        /\ DigitRun(text, i + 1 + WsRun(text, i + 1)) >= 1 }

\* match.group(1) of the first match
NumeralOf(text, label) ==
    LET i == Min(CountMatches(text, label))
        p == i + 1 + WsRun(text, i + 1)
    IN SubSeq(text, p, p + DigitRun(text, p) - 1)

\* int(match.group(1)) raises ValueError: the numeral is longer than int() converts
CountRaises(text, label) ==
    CountMatches(text, label) # {} /\ DigitCount(NumeralOf(text, label)) > IntMaxStrDigits

\* int(match.group(1)) of the first match
CountOf(text, label) == IntOf(NumeralOf(text, label))

\* re.search(label \s* (PASS|REVIEW NEEDED|MAJOR ISSUES))
StatusMatches(text) ==
    { i \in 1..Len(text) :
        /\ text[i] = StatusLabel
        /\ LET p == i + 1 + WsRun(text, i + 1) IN
           p <= Len(text) /\ text[p] \in StatusLiterals }

\* checker.py:126-128
ParseTotal(text) ==
    IF CountMatches(text, TotalLabel) # {} THEN CountOf(text, TotalLabel) ELSE 0

\* checker.py:131-136
ParseStatus(text) ==
    IF StatusMatches(text) # {}
    THEN LET i == Min(StatusMatches(text)) IN text[i + 1 + WsRun(text, i + 1)]
    ELSE "UNKNOWN"

\* checker.py:139-150: a dict with the keys of the patterns that match
ParseBreakdown(text) ==
    LET found == { k \in 1..Len(BreakdownPatterns) :
                      CountMatches(text, BreakdownPatterns[k][1]) # {} }
    IN [key \in { BreakdownPatterns[k][2] : k \in found } |->
           LET n == CHOOSE k \in found : BreakdownPatterns[k][2] = key IN
           CountOf(text, BreakdownPatterns[n][1])]

\* one of the int() conversions of parse_verification_summary raises
SummaryRaises(text) ==
    \/ CountRaises(text, TotalLabel)
    \/ \E k \in 1..Len(BreakdownPatterns) : CountRaises(text, BreakdownPatterns[k][1])

\* parse_verification_summary(checked_report): the summary, or the exception raised
parse_verification_summary(checked_report) ==
    IF SummaryRaises(checked_report) THEN [raised |-> "ValueError"]
    ELSE Returned([total_flags |-> ParseTotal(checked_report),
                   status |-> ParseStatus(checked_report),
                   breakdown |-> ParseBreakdown(checked_report)])

-----------------------------------------------------------------------------
(* generator.py: generate_report; checker.py: check_report *)
(* The prompt files are text files of the file system: the content is the      *)
(* template under the expected key, or NoneVal when the YAML lacks the key.    *)
(* The client is the one passed in by the caller; what it answers is up to the *)
(* environment.                                                                  *)

PromptPath(prompt_name) == <<"prompts/">> \o prompt_name
MasterPromptName == <<"tpc_master_prompt_v2.yaml">>
CheckerPromptName == <<"checker_prompt.yaml">>

\* load_prompt / load_checker_prompt: the template, or the exception raised
load_prompt(fs, prompt_name) ==
    IF PromptPath(prompt_name) \notin DOMAIN fs.txt THEN FileNotFound
    ELSE IF fs.txt[PromptPath(prompt_name)] = NoneVal THEN [raised |-> "ValueError"]
    ELSE Returned(fs.txt[PromptPath(prompt_name)])

load_checker_prompt(fs, prompt_name) == load_prompt(fs, prompt_name)

Message(role, content) == [role |-> role, content |-> content]

GenerateDirective == "Generate the track report for the following data:\n\n"

\* generator.py:182-191
GenerateMessages(system_prompt, bundle) ==
    << Message("system", system_prompt),
       Message("user", <<GenerateDirective>> \o format_track_bundle(bundle)) >>

CheckHead == "## Source Data (Ground Truth)\n\n"
CheckMiddle == "\n\n## Draft Report to Verify\n\n"
CheckTail == "\n\nPlease verify this report against the source data and flag any hallucinations."

\* a variant in which the checker renders the bundle without its sources
CheckMessagesNoSources(system_prompt, bundle, draft_report) ==
    << Message("system", system_prompt),
       Message("user", <<CheckHead>>
                       \o format_track_bundle([bundle EXCEPT !.sources = <<>>])
                       \o <<CheckMiddle>> \o Str(draft_report) \o <<CheckTail>>) >>

\* checker.py:184-200
CheckMessages(system_prompt, bundle, draft_report) ==
    << Message("system", system_prompt),
       Message("user", <<CheckHead>> \o format_track_bundle(bundle)
                       \o <<CheckMiddle>> \o Str(draft_report) \o <<CheckTail>>) >>

\* VerificationResult and its properties (checker.py:20-42)
VerificationResult(report, flags, total_flags, status) ==
    [report |-> report, flags |-> flags, total_flags |-> total_flags, status |-> status]
passed(result) == result.total_flags = 0
needs_review(result) == 1 <= result.total_flags /\ result.total_flags <= 5
has_major_issues(result) == result.total_flags > 5

\* a variant that always takes the total of the summary
ResolveTotalFlagsSummaryOnly(summary, flags) == summary.total_flags

\* checker.py:214
ResolveTotalFlags(summary, flags) ==
    IF summary.total_flags > 0 THEN summary.total_flags ELSE Len(flags)

\* a variant that always derives the status from the flag count
ResolveStatusByCount(summary, total_flags) ==
    IF total_flags = 0 THEN "PASS"
    ELSE IF total_flags <= 5 THEN "REVIEW NEEDED"
    ELSE "MAJOR ISSUES"

\* checker.py:217-224
ResolveStatus(summary, total_flags) ==
    IF summary.status = "UNKNOWN"
    THEN IF total_flags = 0 THEN "PASS"
         ELSE IF total_flags <= 5 THEN "REVIEW NEEDED"
         ELSE "MAJOR ISSUES"
    ELSE summary.status

\* checker.py:210-231: the result made of the client's answer, or the exception
\* of parse_verification_summary
VerificationOf(checked_report) ==
    LET flags == extract_flags(checked_report)
        parsed == parse_verification_summary(checked_report)
        total_flags == ResolveTotalFlags(parsed.value, flags)
    IN IF parsed.raised # "" THEN parsed
       ELSE Returned(VerificationResult(checked_report, flags, total_flags,
                                        ResolveStatus(parsed.value, total_flags)))

-----------------------------------------------------------------------------
(* Specification SpecReport: one generate_report and one check_report on the   *)
(* same bundle, each with the client's answer or failure.                       *)

MaxFlags == 7        \* inline flags of a checker answer

MasterPrompt == <<"<master_prompt>">>
CheckerPrompt == <<"<checker_prompt>">>

\* prompt files: both present, the generator's missing, the checker's without its key
ReportFileSystems ==
    { [EmptyFileSystem EXCEPT !.txt = t] :
        t \in { (PromptPath(MasterPromptName) :> MasterPrompt)
                    @@ (PromptPath(CheckerPromptName) :> CheckerPrompt),
                (PromptPath(CheckerPromptName) :> CheckerPrompt),
                (PromptPath(MasterPromptName) :> MasterPrompt)
                    @@ (PromptPath(CheckerPromptName) :> NoneVal) } }

ReportBundles ==
    { [track |-> [id |-> T1, name |-> <<"N">>, room |-> NoneVal],
       sessions |-> <<>>, sources |-> <<>>],
      [track |-> [id |-> T1, name |-> <<"N">>, room |-> NoneVal],
       sessions |-> << SynthSession(T1, <<"N">>, << FormatTalk >>,
                           << [name |-> Bo, organization |-> OrgW] >>, <<"n">>) >>,
       sources |-> << <<"Track inputs: ">> \o InputsDir >>] }

\* the overrides a caller passes: the defaults of the function, or its own
GenerateKwargs == { [max_tokens |-> 8000, temperature |-> "0.3"],
                    [max_tokens |-> 5000, temperature |-> "0.5"] }
CheckKwargs == { [max_tokens |-> 10000, temperature |-> "0.1"],
                 [max_tokens |-> 500, temperature |-> "0.9"] }

Drafts == { <<"#", " ", "D">>, EmptyStr }
GenerateAnswers == { <<"#", " ", "D">>, EmptyStr }
ClientErrors == { "RuntimeError", "APIConnectionError" }

\* one well-formed inline flag
OneFlag == <<FlagOpen, " ", "a", " ", Quote, "b", Quote, Close>>

RECURSIVE Repeat(_, _)
Repeat(str, n) == IF n = 0 THEN EmptyStr ELSE str \o Repeat(str, n - 1)

\* str(n) for a natural number
RECURSIVE DecimalOf(_)
DecimalOf(n) ==
    IF n < 10 THEN <<Digits[n + 1]>> ELSE DecimalOf(n \div 10) \o <<Digits[(n % 10) + 1]>>

\* a checker answer: n inline flags, then the summary lines that are present
\* (total -1: no total line; status "": no status line)
CheckAnswer(n, total, status) ==
    Repeat(OneFlag, n)
    \o (IF total < 0 THEN EmptyStr ELSE <<TotalLabel, " ">> \o DecimalOf(total) \o <<"\n">>)
    \o (IF status = "" THEN EmptyStr ELSE <<StatusLabel, " ", status>>)

AnswerTotals == { -1, 0, 3, 12 }
AnswerStatuses == { "" } \cup StatusLiterals      \* "": no status line

CheckAnswerShapes == (0..MaxFlags) \X AnswerTotals \X AnswerStatuses

InitReport ==
    /\ files \in ReportFileSystems
    /\ fbundle \in ReportBundles
    /\ runs = <<>>
    /\ last = NoCall
    /\ calls = <<>>
    /\ proc = NoCall
    /\ config = <<>>
    /\ client = <<>>
    /\ MergeIdle

\* generate_report up to its call of client.chat_completion (generator.py:175-198)
GenerateReportCall ==
    \E kw \in GenerateKwargs :
        /\ proc = NoCall /\ last.op = "none"
        /\ LET system_prompt == load_prompt(files, MasterPromptName) IN
           IF system_prompt.raised # ""
           THEN /\ last' = [op |-> "generate_report", kwargs |-> kw, ret |-> system_prompt]
                /\ UNCHANGED <<calls, proc>>
           ELSE /\ calls' = Append(calls,
                        [by |-> "generate_report",
                         messages |-> GenerateMessages(system_prompt.value, fbundle),
                         kwargs |-> kw, outcome |-> NoneVal])
                /\ proc' = [op |-> "generate_report", kwargs |-> kw]
                /\ UNCHANGED last
        /\ UNCHANGED <<files, mergeVars, fmtVars, config, client>>

\* a variant that calls the client again after a failure
GenerateReportRaiseRetry ==
    \E err \in ClientErrors :
        /\ proc # NoCall /\ proc.op = "generate_report" /\ Len(calls) < 2
        /\ calls' = Append([calls EXCEPT ![Len(calls)].outcome = [raised |-> err]],
                           [calls[Len(calls)] EXCEPT !.outcome = NoneVal])
        /\ UNCHANGED <<proc, last>>
        /\ UNCHANGED <<files, mergeVars, fmtVars, config, client>>

\* client.chat_completion raises: generate_report lets the exception through
GenerateReportRaise ==
    \E err \in ClientErrors :
        /\ proc # NoCall /\ proc.op = "generate_report"
        /\ calls' = [calls EXCEPT ![Len(calls)].outcome = [raised |-> err]]
        /\ last' = [op |-> "generate_report", kwargs |-> proc.kwargs, ret |-> [raised |-> err]]
        /\ proc' = NoCall
        /\ UNCHANGED <<files, mergeVars, fmtVars, config, client>>

\* client.chat_completion returns: generate_report returns the text (generator.py:200)
GenerateReportReturn ==
    \E report \in GenerateAnswers :
        /\ proc # NoCall /\ proc.op = "generate_report"
        /\ calls' = [calls EXCEPT ![Len(calls)].outcome = Returned(report)]
        /\ last' = [op |-> "generate_report", kwargs |-> proc.kwargs, ret |-> Returned(report)]
        /\ proc' = NoCall
        /\ UNCHANGED <<files, mergeVars, fmtVars, config, client>>

\* check_report up to its call of client.chat_completion (checker.py:177-207)
CheckReportCall ==
    \E kw \in CheckKwargs, draft_report \in Drafts :
        /\ proc = NoCall /\ last.op \in {"none", "generate_report"}
        /\ LET system_prompt == load_checker_prompt(files, CheckerPromptName) IN
           IF system_prompt.raised # ""
           THEN /\ last' = [op |-> "check_report", kwargs |-> kw,
                            draft_report |-> draft_report, ret |-> system_prompt]
                /\ UNCHANGED <<calls, proc>>
           ELSE /\ calls' = Append(calls,
                        [by |-> "check_report",
                         messages |-> CheckMessages(system_prompt.value, fbundle, draft_report),
                         kwargs |-> kw, outcome |-> NoneVal])
                /\ proc' = [op |-> "check_report", kwargs |-> kw, draft_report |-> draft_report]
                /\ UNCHANGED last
        /\ UNCHANGED <<files, mergeVars, fmtVars, config, client>>

\* client.chat_completion raises: check_report lets the exception through
CheckReportRaise ==
    \E err \in ClientErrors :
        /\ proc # NoCall /\ proc.op = "check_report"
        /\ calls' = [calls EXCEPT ![Len(calls)].outcome = [raised |-> err]]
        /\ last' = [op |-> "check_report", kwargs |-> proc.kwargs,
                    draft_report |-> proc.draft_report, ret |-> [raised |-> err]]
        /\ proc' = NoCall
        /\ UNCHANGED <<files, mergeVars, fmtVars, config, client>>

\* client.chat_completion returns: check_report makes the result (checker.py:209-231)
CheckReportReturn ==
    \E shape \in CheckAnswerShapes :
        LET checked_report == CheckAnswer(shape[1], shape[2], shape[3]) IN
        /\ proc # NoCall /\ proc.op = "check_report"
        /\ calls' = [calls EXCEPT ![Len(calls)].outcome = Returned(checked_report)]
        /\ last' = [op |-> "check_report", kwargs |-> proc.kwargs,
                    draft_report |-> proc.draft_report, shape |-> shape,
                    ret |-> VerificationOf(checked_report)]
        /\ proc' = NoCall
        /\ UNCHANGED <<files, mergeVars, fmtVars, config, client>>

NextReport ==
    \/ GenerateReportCall \/ GenerateReportRaise \/ GenerateReportReturn
    \/ CheckReportCall \/ CheckReportRaise \/ CheckReportReturn

SpecReport == InitReport /\ [][NextReport]_vars

-----------------------------------------------------------------------------
(* Properties of generate_report and check_report *)

\* the calls of the log made by an operation
CallsBy(op) == { i \in 1..Len(calls) : calls[i].by = op }

\* the two texts between the fixed parts of the checker's user message
MiddleAt(content) == Min({ i \in 1..Len(content) : content[i] = CheckMiddle })
SourceIn(content) == SubSeq(content, 2, MiddleAt(content) - 1)
DraftIn(content) == SubSeq(content, MiddleAt(content) + 1, Len(content) - 1)

\* the arguments of the check_report that is running or has ended
CheckArgs == IF proc # NoCall THEN proc ELSE last

\* C12: the Generator and the Checker see the same textual bundle: the source text in
\* the user message of check_report is format_track_bundle(bundle), the text that
\* generate_report puts in its user message for the same bundle, and the user message
\* of check_report also holds the draft unchanged.
ThmC12 ==
    \A j \in CallsBy("check_report") :
        LET c == calls[j].messages[2].content IN
        /\ calls[j].messages[2].role = "user"
        /\ c[1] = CheckHead /\ c[Len(c)] = CheckTail
        /\ SourceIn(c) = format_track_bundle(fbundle)
        /\ DraftIn(c) = CheckArgs.draft_report
        /\ \A i \in CallsBy("generate_report") :
               LET g == calls[i].messages[2].content IN
               g[1] = GenerateDirective /\ Tail(g) = SourceIn(c)

\* generate_report and check_report have both called the client for a bundle with a
\* session and sources, the checker with a draft
WitC12 ==
    /\ CallsBy("generate_report") # {} /\ CallsBy("check_report") # {}
    /\ fbundle.sessions # <<>> /\ fbundle.sources # <<>>
    /\ CheckArgs.draft_report # EmptyStr
    /\ Len(SourceIn(calls[2].messages[2].content)) > 20

Checked == last.op = "check_report" /\ last.ret.raised = ""
Result == last.ret.value
InlineFlags == last.shape[1]
SummaryTotal == last.shape[2]
SummaryStatus == last.shape[3]

\* C14: total_flags is the total of the summary block when that is greater than zero,
\* and otherwise (no total, or a total of zero) the number of inline flags; report is
\* the raw answer and flags are the inline flags in order.
ThmC14 ==
    Checked =>
        /\ Result.total_flags = IF SummaryTotal > 0 THEN SummaryTotal ELSE InlineFlags
        /\ Result.report = calls[Len(calls)].outcome.value
        /\ Result.report = CheckAnswer(InlineFlags, SummaryTotal, SummaryStatus)
        /\ Result.flags = [k \in 1..InlineFlags |-> [type |-> <<"a">>, description |-> <<"b">>]]

\* an answer with inline flags and a summary total of zero, and one with a positive
\* total that differs from the number of inline flags
WitC14 ==
    /\ Checked
    /\ InlineFlags = 2
    /\ SummaryTotal = 0
    /\ Result.total_flags = 2

\* the status that the thresholds give to a flag count
ByThresholds(n) ==
    CASE n = 0 -> "PASS"
      [] n \in 1..5 -> "REVIEW NEEDED"
      [] n > 5 -> "MAJOR ISSUES"

\* C15: the status of the result is the status literal of the summary block when one
\* is present, and otherwise follows from total_flags by the thresholds; it is never
\* UNKNOWN.
ThmC15 ==
    Checked =>
        /\ Result.status = IF SummaryStatus # "" THEN SummaryStatus
                           ELSE ByThresholds(Result.total_flags)
        /\ Result.status # "UNKNOWN"

\* an answer without a status line and with more than five flags
WitC15 ==
    /\ Checked
    /\ SummaryStatus = ""
    /\ SummaryTotal < 0
    /\ InlineFlags = 6
    /\ Result.status = "MAJOR ISSUES"

\* C16 (as claimed): in every result of check_report the status classifies the flag
\* count: PASS exactly when passed, REVIEW NEEDED exactly when needs_review, MAJOR
\* ISSUES exactly when has_major_issues.
CexC16 ==
    Checked =>
        /\ Result.status = "PASS" <=> passed(Result)
        /\ Result.status = "REVIEW NEEDED" <=> needs_review(Result)
        /\ Result.status = "MAJOR ISSUES" <=> has_major_issues(Result)

-----------------------------------------------------------------------------
(* Specification SpecParse: extract_flags and parse_verification_summary applied *)
(* to the texts made of a few pieces.                                             *)

MaxFlagPieces == 4       \* pieces of a text with annotations
MaxSummaryPieces == 4    \* pieces of a text with summary lines

FlagPieces == { <<FlagOpen>>, <<" ">>, <<Quote>>, <<Close>>, <<"a">>, OneFlag }
SummaryPieces == { <<TotalLabel>>, <<StatusLabel>>, <<" ">>, <<"7">>, <<"0">>,
                   <<LongNumeral>>, <<"PASS">>, <<"Unknown persons:">> }

RECURSIVE Flatten(_)
Flatten(pieces) == IF pieces = <<>> THEN <<>> ELSE Head(pieces) \o Flatten(Tail(pieces))

ParseTexts ==
    { Flatten(ps) : ps \in SeqsUpTo(FlagPieces, MaxFlagPieces) }
    \cup { Flatten(ps) : ps \in SeqsUpTo(SummaryPieces, MaxSummaryPieces) }

InitParse ==
    /\ proc \in { [op |-> "text", text |-> t] : t \in ParseTexts }
    /\ last = NoCall
    /\ calls = <<>> /\ config = <<>> /\ client = <<>>
    /\ files = EmptyFileSystem
    /\ MergeIdle
    /\ FormatIdle

ExtractFlags ==
    /\ last.op = "none"
    /\ last' = [op |-> "extract_flags", checked_report |-> proc.text,
                ret |-> Returned(extract_flags(proc.text))]
    /\ UNCHANGED <<files, mergeVars, fmtVars, llmVars>>

ParseVerificationSummary ==
    /\ last.op = "none"
    /\ last' = [op |-> "parse_verification_summary", checked_report |-> proc.text,
                ret |-> parse_verification_summary(proc.text)]
    /\ UNCHANGED <<files, mergeVars, fmtVars, llmVars>>

NextParse == ExtractFlags \/ ParseVerificationSummary

SpecParse == InitParse /\ [][NextParse]_vars

-----------------------------------------------------------------------------
(* Properties of extract_flags *)

\* a type literal: not empty, without quote, bracket or "[FLAG:", no blank at its ends
IsTypeLiteral(t) ==
    /\ t # <<>>
    /\ \A j \in 1..Len(t) : t[j] \notin {Quote, Close, FlagOpen}
    /\ t[1] # " " /\ t[Len(t)] # " "

\* a description literal: not empty, without quote
IsDescriptionLiteral(d) == d # <<>> /\ \A j \in 1..Len(d) : d[j] # Quote

\* the first index after i of an atom of the set, or 0
FirstOf(text, i, S) ==
    LET J == { j \in (i + 1)..Len(text) : text[j] \in S } IN
    IF J = {} THEN 0 ELSE Min(J)

\* s without the blanks at its ends
RECURSIVE Trim(_)
Trim(str) ==
    IF str = <<>> THEN str
    ELSE IF str[1] = " " THEN Trim(Tail(str))
    ELSE IF str[Len(str)] = " " THEN Trim(SubSeq(str, 1, Len(str) - 1))
    ELSE str

\* the well-formed annotation that begins at i, if there is one:
\* [FLAG: <type> "<description>"], or [FLAG: <type>] without a description
AnnotationAt(text, i) ==
    LET z == FirstOf(text, i, {Quote, Close})
        inner == SubSeq(text, i + 1, z - 1)
        q == FirstOf(text, z, {Quote})
    IN IF text[i] # FlagOpen \/ z = 0 \/ ~IsTypeLiteral(Trim(inner)) THEN [ok |-> FALSE]
       ELSE IF text[z] = Close
       THEN [ok |-> TRUE, type |-> Trim(inner), description |-> EmptyStr, end |-> z]
       ELSE IF /\ inner[Len(inner)] = " "
               /\ q # 0 /\ q < Len(text) /\ text[q + 1] = Close
               /\ IsDescriptionLiteral(SubSeq(text, z + 1, q - 1))
       THEN [ok |-> TRUE, type |-> Trim(inner),
             description |-> SubSeq(text, z + 1, q - 1), end |-> q + 1]
       ELSE [ok |-> FALSE]

\* the well-formed annotations of the text from position i on, in order of appearance
RECURSIVE Annotations(_, _)
Annotations(text, i) ==
    IF i > Len(text) THEN <<>>
    ELSE LET a == AnnotationAt(text, i) IN
         IF a.ok
         THEN << [type |-> a.type, description |-> a.description] >>
              \o Annotations(text, a.end + 1)
         ELSE Annotations(text, i + 1)

\* C17 (as claimed): extract_flags returns one {type, description} record per
\* well-formed annotation, in order of appearance, with the literals of the input,
\* and the empty list when the text has no annotation or only malformed ones.
CexC17 ==
    last.op = "extract_flags" =>
        last.ret = Returned(Annotations(last.checked_report, 1))

-----------------------------------------------------------------------------
(* Properties of parse_verification_summary *)

\* the lines of a label: the label, blanks, and a number
LinesOf(text, label) ==
    { i \in 1..Len(text) :
        /\ text[i] = label
        /\ \E j \in (i + 1)..Len(text) :
              /\ \A k \in (i + 1)..(j - 1) : text[k] = " "
              /\ IsDigit(text[j]) }

\* the value of a decimal numeral, the leading digit first
RECURSIVE ValueOf(_, _)
ValueOf(ds, acc) == IF ds = <<>> THEN acc ELSE ValueOf(Tail(ds), 10 * acc + DigitVal(Head(ds)))

\* the number on the first line of the label
NumberOf(text, label) ==
    LET i == Min(LinesOf(text, label))
        j == Min({ k \in (i + 1)..Len(text) : text[k] # " " })
        e == Min({ k \in j..(Len(text) + 1) : k > Len(text) \/ ~IsDigit(text[k]) })
    IN ValueOf(SubSeq(text, j, e - 1), 0)

\* the status literals that follow a status label
LabeledStatuses(text) ==
    { i \in 1..Len(text) :
        /\ text[i] = StatusLabel
        /\ \E j \in (i + 1)..Len(text) :
              /\ \A k \in (i + 1)..(j - 1) : text[k] = " "
              /\ text[j] \in {"PASS", "REVIEW NEEDED", "MAJOR ISSUES"} }

KnownCategories ==
    { <<"Unknown persons:", "unknown_persons">>,
      <<"Unknown organizations:", "unknown_organizations">>,
      <<"Unverified talks:", "unverified_talks">>,
      <<"Unsupported claims:", "unsupported_claims">>,
      <<"Other issues:", "other_issues">> }

\* the fields of a returned summary are those of the lines that are present
SummaryFieldsRight ==
    LET text == last.checked_report
        summary == last.ret.value
    IN /\ summary.total_flags =
              IF LinesOf(text, TotalLabel) # {} THEN NumberOf(text, TotalLabel) ELSE 0
       /\ summary.status =
              IF LabeledStatuses(text) # {}
              THEN LET i == Min(LabeledStatuses(text)) IN
                   text[Min({ k \in (i + 1)..Len(text) : text[k] # " " })]
              ELSE "UNKNOWN"
       /\ DOMAIN summary.breakdown =
              { c[2] : c \in { c \in KnownCategories : LinesOf(text, c[1]) # {} } }
       /\ \A c \in KnownCategories :
              LinesOf(text, c[1]) # {} => summary.breakdown[c[2]] = NumberOf(text, c[1])

\* C18 (as claimed): parse_verification_summary never raises and defaults each field
\* on its own: total_flags is the labeled total if the total line is present and 0
\* otherwise, status is the labeled literal if one follows the status label and
\* UNKNOWN otherwise, and the breakdown holds a count for exactly the known
\* categories whose line is present.
CexC18 ==
    last.op = "parse_verification_summary" =>
        /\ last.ret.raised = ""
        /\ SummaryFieldsRight

\* whenever parse_verification_summary returns, the fields are right
SummaryRightWhenReturned ==
    (last.op = "parse_verification_summary" /\ last.ret.raised = "") => SummaryFieldsRight

-----------------------------------------------------------------------------
(* config_loader.py: Config *)
(* A scalar of the configuration (a name, a URL, a numeral) is an atom, a  *)
(* TLA+ string; None is the atom NoneAtom. A dict is a function on its     *)
(* keys. The "parameters" dict of an endpoint is one object, shared by the *)
(* configuration and by every shallow copy of the endpoint: a copy holds   *)
(* [ref |-> name], the reference to config["endpoints"][name]["parameters"]*)
(* and a dict made by a default argument is held as [own |-> dict].        *)

NoneAtom == "<None>"
EmptyDict == <<>>
NullParams == [null |-> TRUE]      \* "parameters:" with no value under it

\* bool(v) for an atom
TruthyAtom(v) == v # NoneAtom /\ v # ""

\* dict.update(other), as a new value
Update(d, other) ==
    [k \in (DOMAIN d) \cup (DOMAIN other) |-> IF k \in DOMAIN other THEN other[k] ELSE d[k]]

ConfigurationError == [raised |-> "ConfigurationError"]

ConfigPath == "configuration.yaml"
SecretsPath == "secrets.yaml"

\* endpoints[endpoint_name].copy(): the values are shared, the parameters dict
\* (when it is one) by reference
CopyEndpoint(raw, endpoint_name) ==
    IF "parameters" \in DOMAIN raw /\ "null" \notin DOMAIN raw.parameters
    THEN [raw EXCEPT !.parameters = [ref |-> endpoint_name]]
    ELSE raw

\* a variant of the resolver that asks the environment before the secrets
GetEndpointConfigEnvFirst(self, environ, endpoint_name) ==
    LET endpoints == Get(self.config, "endpoints", EmptyDict) IN
    IF endpoint_name \notin DOMAIN endpoints THEN ConfigurationError
    ELSE LET endpoint == CopyEndpoint(endpoints[endpoint_name], endpoint_name)
             api_key_env == Get(endpoint, "api_key_env", NoneAtom)
         IN IF ~TruthyAtom(api_key_env) THEN Returned(endpoint)
            ELSE LET env_value == Get(environ, api_key_env, NoneAtom)
                     api_key == IF TruthyAtom(env_value) THEN env_value
                                ELSE Get(self.secrets, api_key_env, NoneAtom)
                 IN IF ~TruthyAtom(api_key) THEN ConfigurationError
                    ELSE Returned(Update(endpoint, [api_key |-> api_key]))

\* Config._get_endpoint_config (config_loader.py:93-116)
GetEndpointConfig(self, environ, endpoint_name) ==
    LET endpoints == Get(self.config, "endpoints", EmptyDict) IN
    IF endpoint_name \notin DOMAIN endpoints THEN ConfigurationError
    ELSE LET endpoint == CopyEndpoint(endpoints[endpoint_name], endpoint_name)
             api_key_env == Get(endpoint, "api_key_env", NoneAtom)
         IN IF ~TruthyAtom(api_key_env) THEN Returned(endpoint)
            ELSE LET secret == Get(self.secrets, api_key_env, NoneAtom)
                     api_key == IF TruthyAtom(secret) THEN secret
                                ELSE Get(environ, api_key_env, NoneAtom)
                 IN IF ~TruthyAtom(api_key) THEN ConfigurationError
                    ELSE Returned(Update(endpoint, [api_key |-> api_key]))

\* Config.__init__ (config_loader.py:43-78): the object, or the exception
NewConfig(fs) ==
    IF ConfigPath \notin DOMAIN fs.yaml THEN ConfigurationError
    ELSE LET self == [config |-> fs.yaml[ConfigPath],
                      secrets |-> Get(fs.yaml, SecretsPath, EmptyDict),
                      active_endpoint_name |-> Get(fs.yaml[ConfigPath], "active_endpoint", NoneAtom)]
         IN IF ~TruthyAtom(self.active_endpoint_name) THEN ConfigurationError
            ELSE LET endpoint == GetEndpointConfig(self, fs.environ, self.active_endpoint_name) IN
                 IF endpoint.raised # "" THEN endpoint
                 ELSE Returned(Update(self, [active_endpoint |-> endpoint.value]))

\* Config.get_llm_client_params (config_loader.py:118-142)
get_llm_client_params(self) ==
    LET endpoint == self.active_endpoint
        endpoint_type == Get(endpoint, "type", NoneAtom)
        params == [type |-> endpoint_type,
                   model |-> Get(endpoint, "model", NoneAtom),
                   parameters |-> Get(endpoint, "parameters", [own |-> EmptyDict])]
    IN IF endpoint_type = "openai"
       THEN Update(params, [base_url |-> Get(endpoint, "base_url", NoneAtom),
                            api_key |-> Get(endpoint, "api_key", "dummy")])
       ELSE IF endpoint_type = "nim_ssh"
       THEN Update(params, [ssh_host |-> Get(endpoint, "ssh_host", NoneAtom),
                            base_url |-> Get(endpoint, "base_url", NoneAtom)])
       ELSE params

\* a variant of the switch that writes the new endpoint over the old one
SwitchEndpointMerging(self, environ, endpoint_name) ==
    LET named == [self EXCEPT !.active_endpoint_name = endpoint_name]
        endpoint == GetEndpointConfig(named, environ, endpoint_name)
    IN IF endpoint.raised # "" THEN [self |-> named, ret |-> endpoint]
       ELSE [self |-> [named EXCEPT !.active_endpoint = Update(self.active_endpoint, endpoint.value)],
             ret |-> Returned(NoneAtom)]

\* Config.switch_endpoint (config_loader.py:152-160): the object afterwards and
\* the outcome; the name is assigned before the endpoint is resolved
switch_endpoint(self, environ, endpoint_name) ==
    LET named == [self EXCEPT !.active_endpoint_name = endpoint_name]
        endpoint == GetEndpointConfig(named, environ, endpoint_name)
    IN IF endpoint.raised # "" THEN [self |-> named, ret |-> endpoint]
       ELSE [self |-> [named EXCEPT !.active_endpoint = endpoint.value],
             ret |-> Returned(NoneAtom)]

-----------------------------------------------------------------------------
(* llm_client.py: LLMClient *)

\* LLMClient.__init__ (llm_client.py:20-55): the object, or the exception
NewLLMClient(cfg) ==
    LET client_params == get_llm_client_params(cfg)
        self == [client_params |-> client_params, endpoint_type |-> client_params.type]
    IN IF self.endpoint_type = "openai"
       THEN Returned(Update(self, [client |-> [base_url |-> client_params.base_url,
                                               api_key |-> client_params.api_key]]))
       ELSE IF self.endpoint_type = "nim_ssh"
       THEN Returned(Update(self, [ssh_host |-> client_params.ssh_host,
                                   base_url |-> client_params.base_url]))
       ELSE [raised |-> "ValueError"]

\* the dict a parameters reference stands for
Deref(cfg, parameters) ==
    IF "ref" \in DOMAIN parameters THEN cfg.config.endpoints[parameters.ref].parameters
    ELSE parameters.own

\* a variant of the merge in which a stored value wins over the override
MergeParamsStoredWins(cfg, self, kwargs) ==
    [params |-> Update(kwargs, Deref(cfg, self.client_params.parameters)),
     config |-> cfg, client |-> self]

\* a variant of the merge that updates the stored dict itself
MergeParamsInPlace(cfg, self, kwargs) ==
    LET stored == self.client_params.parameters
        params == Update(Deref(cfg, stored), kwargs)
    IN [params |-> params,
        config |-> IF "ref" \in DOMAIN stored
                   THEN [cfg EXCEPT !.config.endpoints[stored.ref].parameters = params]
                   ELSE cfg,
        client |-> IF "ref" \in DOMAIN stored THEN self
                   ELSE [self EXCEPT !.client_params.parameters = [own |-> params]]]

\* params = self.client_params.get("parameters", {}).copy(); params.update(kwargs)
\* (llm_client.py:73-74): the merged dict, and the objects afterwards
MergeParams(cfg, self, kwargs) ==
    [params |-> Update(Deref(cfg, self.client_params.parameters), kwargs),
     config |-> cfg, client |-> self]

DefaultTemperature == "0.3"
DefaultMaxTokens == "4000"
DefaultTopP == "1.0"

\* the keyword arguments of completions.create, and the payload dict
\* (llm_client.py:89-95, 105-111)
RequestOf(self, messages, params) ==
    [model |-> self.client_params.model,
     messages |-> messages,
     temperature |-> Get(params, "temperature", DefaultTemperature),
     max_tokens |-> Get(params, "max_tokens", DefaultMaxTokens),
     top_p |-> Get(params, "top_p", DefaultTopP)]

JNum(n) == [j |-> "number", n |-> n]
JInvalid == [j |-> "invalid"]      \* a text that is no JSON text

DumpAtom(v) == IF v = NoneAtom THEN JNull ELSE JStr(v)
DumpNumber(v) == IF v = NoneAtom THEN JNull ELSE JNum(v)
DumpMessage(m) ==
    JObj(<<"role", "content">>, [role |-> JStr(m.role), content |-> JStr(m.content)])

\* json.dumps(payload) (llm_client.py:113)
DumpPayload(payload) ==
    JObj(<<"model", "messages", "temperature", "max_tokens", "top_p">>,
         [model |-> DumpAtom(payload.model),
          messages |-> JArr([i \in 1..Len(payload.messages) |-> DumpMessage(payload.messages[i])]),
          temperature |-> DumpNumber(payload.temperature),
          max_tokens |-> DumpNumber(payload.max_tokens),
          top_p |-> DumpNumber(payload.top_p)])

\* value[key] for a str key, on a value read by json.loads
ItemKey(value, key) ==
    IF value.j = "object"
    THEN IF \E i \in 1..Len(value.keys) : value.keys[i] = key
         THEN Returned(value.vals[key]) ELSE [raised |-> "KeyError"]
    ELSE [raised |-> "TypeError"]

\* value[0]
ItemFirst(value) ==
    IF value.j = "array"
    THEN IF Len(value.items) > 0 THEN Returned(value.items[1]) ELSE [raised |-> "IndexError"]
    ELSE IF value.j = "string"
    THEN IF Len(value.s) > 0 THEN Returned(JStr(<<value.s[1]>>)) ELSE [raised |-> "IndexError"]
    ELSE IF value.j = "object" THEN [raised |-> "KeyError"]
    ELSE [raised |-> "TypeError"]

\* whether "key in value" is defined: it raises TypeError on a number, a bool or None
IsContainer(value) == value.j \in {"object", "array", "string"}

\* key in value, for a dict, a list or a str
Contains(value, key) ==
    IF value.j = "object" THEN \E i \in 1..Len(value.keys) : value.keys[i] = key
    ELSE IF value.j = "array"
    THEN \E i \in 1..Len(value.items) :
            value.items[i].j = "string" /\ value.items[i].s = <<key>>
    ELSE \E i \in 1..Len(value.s) : value.s[i] = key

RuntimeError(kind, output) == [raised |-> "RuntimeError", kind |-> kind, output |-> output]

\* response["choices"][0]["message"]["content"] (llm_client.py:152)
ContentOf(response) ==
    LET choices == ItemKey(response, "choices") IN
    IF choices.raised # "" THEN choices
    ELSE LET first == ItemFirst(choices.value) IN
    IF first.raised # "" THEN first
    ELSE LET message == ItemKey(first.value, "message") IN
    IF message.raised # "" THEN message
    ELSE ItemKey(message.value, "content")

\* _nim_ssh_completion after subprocess.run (llm_client.py:124-159): result is
\* the completed process [returncode, stdout], or [timeout |-> TRUE]
NimOutcome(result) ==
    IF "timeout" \in DOMAIN result THEN RuntimeError("timeout", "none")
    ELSE IF result.returncode # 0 THEN RuntimeError("ssh", "stderr")
    ELSE IF result.stdout.j = "invalid" THEN RuntimeError("parse", "stdout")
    ELSE LET response == result.stdout IN
         IF ~IsContainer(response) THEN [raised |-> "TypeError"]
         ELSE IF Contains(response, "error") THEN RuntimeError("llm", "error")
         ELSE IF ~Contains(response, "choices")
              THEN IF response.j = "object" THEN RuntimeError("format", "dumps[:500]")
                   ELSE [raised |-> "AttributeError"]
         ELSE ContentOf(response)

-----------------------------------------------------------------------------
(* Specification SpecClient: a configuration is loaded, endpoints are      *)
(* switched, one client is built from the Config and completes chats.      *)
(* files holds the parsed YAML files and the environment of the process;   *)
(* proc holds what the client was built with; calls holds the requests     *)
(* that left the client, in order.                                         *)

MaxCalls == 2        \* chat_completion calls of a behaviour

ApiKeyEnv == "OPENAI_API_KEY"

Endpoints ==
    [test_openai |->
        [type |-> "openai", base_url |-> "http://localhost:8080/v1", model |-> "test-model",
         api_key_env |-> NoneAtom,
         parameters |-> [temperature |-> "0.5", max_tokens |-> "1000", top_p |-> "0.9"]],
     test_nim_ssh |->
        [type |-> "nim_ssh", ssh_host |-> "test-host", base_url |-> "http://localhost:8000/v1",
         model |-> "test-nim-model", api_key_env |-> NoneAtom,
         parameters |-> [temperature |-> "0.7", max_tokens |-> "2000", seed |-> "42"]],
     keyed |->
        [type |-> "openai", base_url |-> "https://api.openai.com/v1", model |-> "gpt-4",
         api_key_env |-> ApiKeyEnv],
     blank |->
        [type |-> "nim_ssh", ssh_host |-> "spark", base_url |-> "http://localhost:8000/v1",
         model |-> "llama", parameters |-> NullParams],
     other |->
        [type |-> "anthropic", model |-> "m"]]

EndpointNames == {"test_openai", "test_nim_ssh", "keyed", "blank", "other", "missing"}

Configuration(active) == [active_endpoint |-> active, endpoints |-> Endpoints]
Secrets == [OPENAI_API_KEY |-> "sk-secret"]
Environ == [OPENAI_API_KEY |-> "sk-env"]

\* the YAML files and the environment: an active endpoint without credential,
\* with the credential in no store or in both stores; and configurations that
\* do not load (unknown active endpoint, unresolvable credential, no active
\* endpoint, no file)
ClientFileSystems ==
    { [yaml |-> (ConfigPath :> Configuration(a)), environ |-> EmptyDict] :
        a \in {"test_openai", "keyed", "missing"} }
    \cup { [yaml |-> (ConfigPath :> Configuration("test_openai")) @@ (SecretsPath :> Secrets),
            environ |-> Environ],
           [yaml |-> (ConfigPath :> [endpoints |-> Endpoints]), environ |-> EmptyDict],
           [yaml |-> EmptyDict, environ |-> EmptyDict] }

SampleMessages ==
    { << Message("system", <<"S">>), Message("user", <<"H">>) >>,
      << Message("user", <<"H">>) >> }

Overrides ==
    { EmptyDict,
      [temperature |-> "0.9", max_tokens |-> "500"],
      [temperature |-> NoneAtom, top_p |-> "0.1", seed |-> "7"] }

JContent(text) == JObj(<<"content">>, [content |-> text])
JMessage(message) == JObj(<<"message">>, [message |-> message])
JChoices(choices) == JObj(<<"choices">>, [choices |-> JArr(choices)])
EmptyObj == JObj(<<>>, EmptyDict)

\* what the remote command can end with
NimResults ==
    { [timeout |-> TRUE], [returncode |-> 255, stdout |-> JInvalid] }
    \cup { [returncode |-> 0, stdout |-> out] : out \in
            { JChoices(<< JMessage(JContent(JStr(<<"A">>))) >>),
              JChoices(<< JMessage(JContent(JNull)) >>),
              JChoices(<< JMessage(EmptyObj) >>),
              JChoices(<< EmptyObj >>),
              JChoices(<<>>),
              EmptyObj,
              JObj(<<"error">>, [error |-> JStr(<<"E">>)]),
              JArr(<<>>),
              JStr(<<"E">>),
              JNum("5"),
              JInvalid } }

\* what completions.create can end with: the first choice's content, or an exception
OpenAIAnswers == { Returned(JStr(<<"A">>)), [raised |-> "APIConnectionError"] }

InitClient ==
    /\ files \in ClientFileSystems
    /\ last = NoCall
    /\ calls = <<>>
    /\ proc = NoCall
    /\ config = <<>>
    /\ client = <<>>
    /\ MergeIdle /\ FormatIdle

\* load_config() (config_loader.py:169-183)
LoadConfig ==
    /\ config = <<>> /\ last.op = "none"
    /\ LET made == NewConfig(files) IN
       /\ config' = IF made.raised = "" THEN made.value ELSE config
       /\ last' = [op |-> "load_config",
                   ret |-> IF made.raised = "" THEN Returned(NoneAtom) ELSE made]
    /\ UNCHANGED <<files, calls, proc, client, mergeVars, fmtVars>>

\* config.switch_endpoint(endpoint_name)
SwitchEndpoint ==
    \E endpoint_name \in EndpointNames :
        /\ config # <<>>
        /\ LET done == switch_endpoint(config, files.environ, endpoint_name) IN
           /\ config' = done.self
           /\ last' = [op |-> "switch_endpoint", endpoint_name |-> endpoint_name,
                       ret |-> done.ret]
        /\ UNCHANGED <<files, calls, proc, client, mergeVars, fmtVars>>

\* what a client shows of its endpoint: the type, the model, the transport its
\* calls take and the stored generation parameters
EndpointOf(cfg, self) ==
    [endpoint_type |-> self.client_params.type,
     model |-> self.client_params.model,
     dispatch |-> self.endpoint_type,
     parameters |-> IF "null" \in DOMAIN self.client_params.parameters THEN NullParams
                    ELSE Deref(cfg, self.client_params.parameters)]

\* LLMClient(config)
NewClient ==
    /\ config # <<>> /\ client = <<>>
    /\ LET made == NewLLMClient(config) IN
       /\ client' = IF made.raised = "" THEN made.value ELSE client
       /\ proc' = IF made.raised = "" THEN [op |-> "built", endpoint |-> EndpointOf(config, made.value)]
                  ELSE proc
       /\ last' = [op |-> "LLMClient",
                   ret |-> IF made.raised = "" THEN Returned(NoneAtom) ELSE made]
    /\ UNCHANGED <<files, calls, config, mergeVars, fmtVars>>

\* client.chat_completion(messages, **kwargs) on the direct transport
ChatCompletionOpenAI ==
    \E messages \in SampleMessages, kwargs \in Overrides, answer \in OpenAIAnswers :
        /\ client # <<>> /\ client.endpoint_type = "openai" /\ Len(calls) < MaxCalls
        /\ LET merged_ == MergeParams(config, client, kwargs) IN
           /\ config' = merged_.config
           /\ client' = merged_.client
           /\ calls' = Append(calls, [transport |-> "openai", kwargs |-> kwargs,
                                      messages |-> messages,
                                      base_url |-> client.client.base_url,
                                      api_key |-> client.client.api_key,
                                      request |-> RequestOf(client, messages, merged_.params)])
           /\ last' = [op |-> "chat_completion", ret |-> answer]
        /\ UNCHANGED <<files, proc, mergeVars, fmtVars>>

\* client.chat_completion(messages, **kwargs) on the tunneled transport
ChatCompletionNimSsh ==
    \E messages \in SampleMessages, kwargs \in Overrides, result \in NimResults :
        /\ client # <<>> /\ client.endpoint_type = "nim_ssh" /\ Len(calls) < MaxCalls
        /\ IF "null" \in DOMAIN client.client_params.parameters
           THEN /\ last' = [op |-> "chat_completion", ret |-> [raised |-> "AttributeError"]]
                /\ UNCHANGED <<calls, config, client>>
           ELSE LET merged_ == MergeParams(config, client, kwargs) IN
                /\ config' = merged_.config
                /\ client' = merged_.client
                /\ calls' = Append(calls, [transport |-> "nim_ssh", kwargs |-> kwargs,
                                           messages |-> messages,
                                           ssh_host |-> client.ssh_host,
                                           base_url |-> client.base_url,
                                           request |-> DumpPayload(RequestOf(client, messages, merged_.params))])
                /\ last' = [op |-> "chat_completion", result |-> result,
                            ret |-> NimOutcome(result)]
        /\ UNCHANGED <<files, proc, mergeVars, fmtVars>>

NextClient ==
    \/ LoadConfig
    \/ SwitchEndpoint
    \/ NewClient
    \/ ChatCompletionOpenAI
    \/ ChatCompletionNimSsh

SpecClient == InitClient /\ [][NextClient]_vars

-----------------------------------------------------------------------------
(* Properties of SpecClient *)

GenerationParameters == {"temperature", "max_tokens", "top_p"}
BuiltIn == [temperature |-> "0.3", max_tokens |-> "4000", top_p |-> "1.0"]

\* what a number or null of a payload stands for
PayloadNumber(v) == IF v.j = "null" THEN NoneAtom ELSE v.n

\* the value of parameter p that request number i carried
SentParam(i, p) ==
    IF calls[i].transport = "openai" THEN calls[i].request[p]
    ELSE PayloadNumber(calls[i].request.vals[p])

\* the model that request number i carried
SentModel(i) ==
    IF calls[i].transport = "openai" THEN calls[i].request.model
    ELSE LET v == calls[i].request.vals.model IN IF v.j = "null" THEN NoneAtom ELSE v.s

\* the messages that request number i carried
SentMessages(i) ==
    IF calls[i].transport = "openai" THEN calls[i].request.messages
    ELSE LET items == calls[i].request.vals.messages.items IN
         [k \in 1..Len(items) |->
            [role |-> items[k].vals.role.s, content |-> items[k].vals.content.s]]

\* the names of the fields request number i carried
SentFields(i) ==
    IF calls[i].transport = "openai" THEN DOMAIN calls[i].request
    ELSE { calls[i].request.keys[k] : k \in 1..Len(calls[i].request.keys) }

\* the generation parameters the endpoint had when the client was built
StoredAtConstruction == proc.endpoint.parameters

\* override, else stored value, else built-in default
Expected(kwargs, stored, p) ==
    IF p \in DOMAIN kwargs THEN kwargs[p]
    ELSE IF p \in DOMAIN stored THEN stored[p]
    ELSE BuiltIn[p]

RequestFields ==
    \A i \in 1..Len(calls) : SentFields(i) = {"model", "messages"} \cup GenerationParameters

\* C20: whatever chat_completion calls and switch_endpoint calls have happened since
\* the client was built, its endpoint type, model, transport dispatch and stored
\* generation parameters are those of its construction, and every request made
\* without overrides carries the stored values (or the defaults) of its construction
ThmC20 ==
    client # <<>> =>
        /\ client.client_params.type = proc.endpoint.endpoint_type
        /\ client.client_params.model = proc.endpoint.model
        /\ client.endpoint_type = proc.endpoint.dispatch
        /\ EndpointOf(config, client).parameters = StoredAtConstruction
        /\ \A i \in 1..Len(calls) :
              /\ calls[i].transport = proc.endpoint.dispatch
              /\ DOMAIN calls[i].kwargs = {} =>
                    \A p \in GenerationParameters :
                        SentParam(i, p) = Expected(EmptyDict, StoredAtConstruction, p)

\* the Config was switched to an endpoint of the other transport after the client
\* was built, and the client has made a call with overrides and then one without
WitC20 ==
    /\ client # <<>>
    /\ config.active_endpoint.type # client.endpoint_type
    /\ last.op = "chat_completion"
    /\ Len(calls) = 2
    /\ calls[1].kwargs = [temperature |-> "0.9", max_tokens |-> "500"]
    /\ DOMAIN calls[2].kwargs = {}
    /\ calls[2].transport = "openai"
    /\ SentParam(2, "temperature") = "0.5"

\* the remote command ended in time, with code 0
Completed == last.op = "chat_completion" /\ "result" \in DOMAIN last
                /\ "timeout" \notin DOMAIN last.result /\ last.result.returncode = 0

HasKey(v, key) == v.j = "object" /\ \E k \in 1..Len(v.keys) : v.keys[k] = key

\* the output is an object with choices[0].message.content
HasContentShape(out) ==
    /\ HasKey(out, "choices")
    /\ out.vals.choices.j = "array" /\ Len(out.vals.choices.items) > 0
    /\ HasKey(out.vals.choices.items[1], "message")
    /\ HasKey(out.vals.choices.items[1].vals.message, "content")

\* a RuntimeError that carries the output of the command (raw, or written again
\* from the parsed response), or the error the response reports
ParseErrorWithOutput(ret) ==
    /\ ret.raised = "RuntimeError"
    /\ ret.kind \in {"parse", "format", "llm"}
    /\ ret.output \in {"stdout", "dumps[:500]", "error"}

\* C21: on the tunneled transport a call whose command times out fails with a
\* timeout error, and a call whose output is no JSON text or lacks the
\* choices[0].message.content shape fails with a parse error that carries the output
CexC21 ==
    /\ (last.op = "chat_completion" /\ "result" \in DOMAIN last /\ "timeout" \in DOMAIN last.result)
          => (last.ret.raised = "RuntimeError" /\ last.ret.kind = "timeout")
    /\ (Completed /\ (last.result.stdout.j = "invalid" \/ ~HasContentShape(last.result.stdout)))
          => ParseErrorWithOutput(last.ret)

\* what does hold: such a call raises, whatever the exception, and returns no text
FailedCallRaises ==
    /\ (last.op = "chat_completion" /\ "result" \in DOMAIN last /\ "timeout" \in DOMAIN last.result)
          => (last.ret.raised = "RuntimeError" /\ last.ret.kind = "timeout")
    /\ (Completed /\ (last.result.stdout.j = "invalid" \/ ~HasContentShape(last.result.stdout)))
          => last.ret.raised # ""

-----------------------------------------------------------------------------
(* Specification SpecConfig: a configuration is loaded and endpoints are   *)
(* switched on the Config, over every kind of configuration file.          *)

ActiveValues == {"test_openai", "keyed", "missing", "", NoneAtom}

ConfigYamls ==
    { Configuration(a) : a \in ActiveValues }
    \cup { [endpoints |-> Endpoints], [active_endpoint |-> "test_openai"] }

SecretsYamls == { Secrets, [OPENAI_API_KEY |-> ""], EmptyDict }

ConfigFileSystems ==
    { [yaml |-> (ConfigPath :> c), environ |-> e] :
          c \in ConfigYamls, e \in {EmptyDict, Environ} }
    \cup { [yaml |-> (ConfigPath :> c) @@ (SecretsPath :> x), environ |-> e] :
          c \in ConfigYamls, x \in SecretsYamls, e \in {EmptyDict, Environ} }
    \cup { [yaml |-> EmptyDict, environ |-> EmptyDict] }

InitConfig ==
    /\ files \in ConfigFileSystems
    /\ last = NoCall
    /\ calls = <<>>
    /\ proc = NoCall
    /\ config = <<>>
    /\ client = <<>>
    /\ MergeIdle /\ FormatIdle

NextConfig ==
    \/ LoadConfig
    \/ SwitchEndpoint

SpecConfig == InitConfig /\ [][NextConfig]_vars

\* the configuration file read, its endpoints, and the stores of credentials
Yaml == files.yaml[ConfigPath]
Known == IF "endpoints" \in DOMAIN Yaml THEN Yaml.endpoints ELSE EmptyDict
SecretStore == IF SecretsPath \in DOMAIN files.yaml THEN files.yaml[SecretsPath] ELSE EmptyDict
Present(store, key) == key \in DOMAIN store /\ store[key] \notin {"", NoneAtom}

NoActiveName == "active_endpoint" \notin DOMAIN Yaml \/ Yaml.active_endpoint \in {"", NoneAtom}

\* endpoint name declares a credential placeholder
Declares(name) ==
    /\ "api_key_env" \in DOMAIN Known[name]
    /\ Known[name].api_key_env \notin {"", NoneAtom}

Unresolvable(name) ==
    /\ Declares(name)
    /\ ~Present(SecretStore, Known[name].api_key_env)
    /\ ~Present(files.environ, Known[name].api_key_env)

LoadFailures ==
    /\ last.op = "load_config" /\ last.ret = ConfigurationError /\ config = <<>>
    /\ ConfigPath \in DOMAIN files.yaml
    /\ ~NoActiveName /\ Yaml.active_endpoint \in DOMAIN Known
    /\ Unresolvable(Yaml.active_endpoint)

\* the credential of endpoint name: from the secrets, else from the environment
Credential(name) ==
    IF Present(SecretStore, Known[name].api_key_env)
    THEN SecretStore[Known[name].api_key_env]
    ELSE files.environ[Known[name].api_key_env]

Field(name, key) == IF key \in DOMAIN Known[name] THEN Known[name][key] ELSE NoneAtom

\* the parameters record of endpoint name, by the fields of its configuration
ParamsOf(name) ==
    LET generation == IF "parameters" \in DOMAIN Known[name]
                      THEN Known[name].parameters ELSE EmptyDict
        common == [type |-> Field(name, "type"), model |-> Field(name, "model"),
                   parameters |-> generation]
    IN IF Field(name, "type") = "openai"
       THEN Update(common, [base_url |-> Field(name, "base_url"),
                            api_key |-> IF Declares(name) THEN Credential(name) ELSE "dummy"])
       ELSE IF Field(name, "type") = "nim_ssh"
       THEN Update(common, [ssh_host |-> Field(name, "ssh_host"),
                            base_url |-> Field(name, "base_url")])
       ELSE common

\* get_llm_client_params() of the Config, with the parameters dict itself in
\* the place of its reference
ParamsNow ==
    LET params == get_llm_client_params(config) IN
    [params EXCEPT !.parameters = IF "null" \in DOMAIN params.parameters THEN NullParams
                                  ELSE Deref(config, params.parameters)]

\* C23: after a successful switch_endpoint(e) the active endpoint name is e and
\* get_llm_client_params returns the type, model, host and base URL, credential
\* and generation parameters of e and no other field, whatever was active before
ThmC23 ==
    (last.op = "switch_endpoint" /\ last.ret.raised = "") =>
        /\ config.active_endpoint_name = last.endpoint_name
        /\ ParamsNow = ParamsOf(last.endpoint_name)

\* a Config loaded with the endpoint that has a credential and no generation
\* parameters was switched to the tunneled endpoint
WitC23 ==
    /\ last.op = "switch_endpoint" /\ last.ret.raised = ""
    /\ Yaml.active_endpoint = "keyed"
    /\ last.endpoint_name = "test_nim_ssh"
    /\ DOMAIN ParamsNow = {"type", "model", "parameters", "ssh_host", "base_url"}
    /\ ParamsNow.parameters.temperature = "0.7"

\* C25: after any switch_endpoint calls, failed ones included, the active endpoint
\* name names the endpoint whose record the Config holds
CexC25 ==
    config # <<>> =>
        /\ config.active_endpoint_name \in DOMAIN Known
        /\ config.active_endpoint.model = Known[config.active_endpoint_name].model
        /\ get_llm_client_params(config).model = Known[config.active_endpoint_name].model

\* what does hold: the record held is always the one of the last endpoint that
\* was resolved, at load or by a switch that returned
RecordOfLastResolved ==
    (config # <<>> /\ last.op = "switch_endpoint" /\ last.ret.raised = "")
        => config.active_endpoint.model = Known[last.endpoint_name].model

-----------------------------------------------------------------------------
(* generator.py, checker.py: the calls on bundles and on files, each with  *)
(* the outcome of its client call (a text returned, or an exception)       *)

DefaultGenerateKwargs == [max_tokens |-> 8000, temperature |-> "0.3"]
DefaultCheckKwargs == [max_tokens |-> 10000, temperature |-> "0.1"]

\* a client call that has not returned
Pending == [raised |-> "<pending>"]

\* generate_report up to its client call (generator.py:175-198): the call it
\* makes, or the exception of load_prompt
GenerateCallOf(fs, bundle, kw) ==
    LET system_prompt == load_prompt(fs, MasterPromptName) IN
    IF system_prompt.raised # "" THEN [sent |-> <<>>, ret |-> system_prompt]
    ELSE [sent |-> << [by |-> "generate_report",
                       messages |-> GenerateMessages(system_prompt.value, bundle),
                       kwargs |-> kw, outcome |-> Pending] >>,
          ret |-> Pending]

\* check_report up to its client call (checker.py:177-207)
CheckCallOf(fs, draft_report, bundle, kw) ==
    LET system_prompt == load_checker_prompt(fs, CheckerPromptName) IN
    IF system_prompt.raised # "" THEN [sent |-> <<>>, ret |-> system_prompt]
    ELSE [sent |-> << [by |-> "check_report",
                       messages |-> CheckMessages(system_prompt.value, bundle, draft_report),
                       kwargs |-> kw, outcome |-> Pending] >>,
          ret |-> Pending]

\* the call, completed with what the client answered
Answered(call, answer, ret) ==
    IF call.sent = <<>> THEN call
    ELSE [sent |-> << [call.sent[1] EXCEPT !.outcome = answer] >>, ret |-> ret]

\* what check_report makes of the client's answer (checker.py:210-231)
VerdictOf(answer) == IF answer.raised # "" THEN answer ELSE VerificationOf(answer.value)

\* generate_report (generator.py:155-200): the client calls made and the result
generate_report(fs, bundle, kw, answer) ==
    Answered(GenerateCallOf(fs, bundle, kw), answer, answer)

\* check_report (checker.py:155-231): the client calls made and the result
check_report(fs, draft_report, bundle, kw, answer) ==
    Answered(CheckCallOf(fs, draft_report, bundle, kw), answer, VerdictOf(answer))

\* Path(path).parent
RECURSIVE Parent(_)
Parent(path) ==
    IF path = <<>> THEN <<".">>
    ELSE IF path[Len(path)] = "/" THEN SubSeq(path, 1, Len(path) - 1)
    ELSE Parent(SubSeq(path, 1, Len(path) - 1))

\* parent.mkdir(parents=True, exist_ok=True); open(path, "w").write(text)
WriteText(fs, path, text) ==
    [fs EXCEPT !.txt = (path :> text) @@ fs.txt, !.dirs = fs.dirs \cup {Parent(path)}]

\* generate_report_from_file (generator.py:203-236)
generate_report_from_file(fs, bundle_path, output_path, kw, answer) ==
    IF bundle_path \notin DOMAIN fs.json THEN [sent |-> <<>>, ret |-> FileNotFound, fs |-> fs]
    ELSE LET done == generate_report(fs, LoadBundle(fs.json[bundle_path]), kw, answer) IN
         [sent |-> done.sent, ret |-> done.ret,
          fs |-> IF done.ret.raised = "" /\ Truthy(output_path)
                 THEN WriteText(fs, output_path, done.ret.value) ELSE fs]

\* checker.py:268-276: the checked report is written when an output path is given
WriteChecked(fs, output_path, done) ==
    [sent |-> done.sent, ret |-> done.ret,
     fs |-> IF done.ret.raised = "" /\ Truthy(output_path)
            THEN WriteText(fs, output_path, done.ret.value.report) ELSE fs]

\* a variant that reads an absent draft as an empty one
CheckReportFromFilesLenient(fs, draft_path, bundle_path, output_path, kw, answer) ==
    IF bundle_path \notin DOMAIN fs.json THEN [sent |-> <<>>, ret |-> FileNotFound, fs |-> fs]
    ELSE WriteChecked(fs, output_path,
             check_report(fs, IF draft_path \in DOMAIN fs.txt THEN fs.txt[draft_path] ELSE EmptyStr,
                          LoadBundle(fs.json[bundle_path]), kw, answer))

\* check_report_from_files (checker.py:234-276)
check_report_from_files(fs, draft_path, bundle_path, output_path, kw, answer) ==
    IF draft_path \notin DOMAIN fs.txt THEN [sent |-> <<>>, ret |-> FileNotFound, fs |-> fs]
    ELSE IF bundle_path \notin DOMAIN fs.json THEN [sent |-> <<>>, ret |-> FileNotFound, fs |-> fs]
    ELSE WriteChecked(fs, output_path,
             check_report(fs, fs.txt[draft_path], LoadBundle(fs.json[bundle_path]), kw, answer))

-----------------------------------------------------------------------------
(* Specification SpecFiles: one call of a loader or of a from-file         *)
(* function, on present and on absent files                                *)

BundleFile == BundlePath(OutDir, T1)
DraftFile == PathJoin(OutDir, <<"draft.md">>)
CheckedFile == PathJoin(OutDir, <<"checked.md">>)

FromFileSystems ==
    { [csv |-> (TalksPath :> << TalksHeader, TalkRow(Al, <<"K">>, T1) >>)
                 @@ (AttendeesPath(T1) :> << CsvHeader, <<Al, OrgW>> >>),
       txt |-> prompts @@ (NotesPath(T1) :> <<"n">>) @@ (DraftFile :> <<"#", " ", "D">>),
       json |-> (BundleFile :> DumpBundle(b)),
       dirs |-> {BaseDir, OutDir, PathJoin(BaseDir, T1)}] :
        b \in ReportBundles,
        prompts \in { (PromptPath(MasterPromptName) :> MasterPrompt)
                          @@ (PromptPath(CheckerPromptName) :> CheckerPrompt),
                      (PromptPath(MasterPromptName) :> MasterPrompt)
                          @@ (PromptPath(CheckerPromptName) :> NoneVal),
                      <<>> } }

ClientAnswers ==
    { Returned(<<"#", " ", "D">>), Returned(EmptyStr), [raised |-> "RuntimeError"] }
CheckerAnswers ==
    { Returned(CheckAnswer(1, -1, "")), Returned(CheckAnswer(0, 0, "PASS")),
      Returned(<<TotalLabel, LongNumeral>>), [raised |-> "RuntimeError"] }

InitFiles ==
    /\ files \in FromFileSystems
    /\ last = NoCall
    /\ LlmIdle /\ MergeIdle /\ FormatIdle

GenerateReportFromFile ==
    \E bundle_path \in {BundleFile, MissingPath}, output_path \in {NoneVal, DraftFile},
       answer \in ClientAnswers :
        /\ last.op = "none"
        /\ LET done == generate_report_from_file(files, bundle_path, output_path,
                                                 DefaultGenerateKwargs, answer) IN
           /\ files' = done.fs
           /\ calls' = calls \o done.sent
           /\ last' = [op |-> "generate_report_from_file", bundle_path |-> bundle_path,
                       output_path |-> output_path, ret |-> done.ret]
        /\ UNCHANGED <<proc, config, client, mergeVars, fmtVars>>

CheckReportFromFiles ==
    \E draft_path \in {DraftFile, MissingPath}, bundle_path \in {BundleFile, MissingPath},
       output_path \in {NoneVal, CheckedFile}, answer \in CheckerAnswers :
        /\ last.op = "none"
        /\ \E done \in {check_report_from_files(files, draft_path, bundle_path, output_path,
                                                 DefaultCheckKwargs, answer)} :
           /\ files' = done.fs
           /\ calls' = calls \o done.sent
           /\ last' = [op |-> "check_report_from_files", draft_path |-> draft_path,
                       bundle_path |-> bundle_path, output_path |-> output_path,
                       ret |-> done.ret]
        /\ UNCHANGED <<proc, config, client, mergeVars, fmtVars>>

NextFiles ==
    \/ LoadLightningTalksCsv
    \/ LoadAttendeesCsv
    \/ LoadNotesFile
    \/ GenerateReportFromFile
    \/ CheckReportFromFiles

SpecFiles == InitFiles /\ [][NextFiles]_vars

\* the step is a call of op
Calls(op) == last.op = "none" /\ last'.op = op

NoEffect == files' = files /\ calls' = calls

\* C24: a call of load_lightning_talks_csv on an absent talks file, of
\* generate_report_from_file on an absent bundle file, or of check_report_from_files
\* on an absent draft or bundle file raises FileNotFoundError, makes no client call
\* and writes no file; load_attendees_csv and load_notes_file on an absent file
\* return an empty list and None
StepC24 ==
    /\ (Calls("load_lightning_talks_csv") /\ last'.csv_path \notin DOMAIN files.csv)
          => (last'.ret = FileNotFound /\ NoEffect)
    /\ (Calls("generate_report_from_file") /\ last'.bundle_path \notin DOMAIN files.json)
          => (last'.ret = FileNotFound /\ NoEffect)
    /\ (Calls("check_report_from_files")
            /\ (last'.draft_path \notin DOMAIN files.txt \/ last'.bundle_path \notin DOMAIN files.json))
          => (last'.ret = FileNotFound /\ NoEffect)
    /\ (Calls("load_attendees_csv") /\ last'.csv_path \notin DOMAIN files.csv)
          => (last'.ret = <<>> /\ NoEffect)
    /\ (Calls("load_notes_file") /\ last'.notes_path \notin DOMAIN files.txt)
          => (last'.ret = NoneVal /\ NoEffect)

ThmC24 == [][StepC24]_vars

\* check_report_from_files was called with a bundle file that exists, a draft
\* that does not and an output path, where both prompts exist: it raised
\* FileNotFoundError, no client call was made and the output file does not exist
WitC24 ==
    /\ last.op = "check_report_from_files"
    /\ last.draft_path = MissingPath /\ last.bundle_path = BundleFile
    /\ last.output_path = CheckedFile
    /\ PromptPath(CheckerPromptName) \in DOMAIN files.txt
    /\ last.ret = FileNotFound
    /\ calls = <<>> /\ CheckedFile \notin DOMAIN files.txt

-----------------------------------------------------------------------------
(* cli.py: the commands run and generate-all. A command goes through its   *)
(* client calls one by one; proc holds where it stands while a call is     *)
(* under way, last what the command ended with.                            *)

\* with open(path, "w") as f: f.write(text): the file is created, and writing
\* None into it raises
WriteStr(fs, path, text) ==
    IF text = NoneVal THEN [fs |-> WriteText(fs, path, EmptyStr), raised |-> "TypeError"]
    ELSE [fs |-> WriteText(fs, path, text), raised |-> ""]

\* the command has ended
Ended(fs, ret, out) == [fs |-> fs, sent |-> <<>>, next |-> "done", ret |-> ret, out |-> out]

\* the command waits for the answer to a client call
Waiting(fs, call, next) ==
    IF call.sent = <<>> THEN Ended(fs, call.ret, NoneVal)
    ELSE [fs |-> fs, sent |-> call.sent, next |-> next, ret |-> Pending, out |-> NoneVal]

RunCheckKwargs == [max_tokens |-> 10000, temperature |-> "0.1"]

\* run: the final output, written to the output file or echoed (cli.py:395-401, 411-417)
RunOutput(fs, output, text) ==
    IF Truthy(output)
    THEN Ended(WriteStr(fs, output, text).fs,
               IF WriteStr(fs, output, text).raised # ""
               THEN [raised |-> WriteStr(fs, output, text).raised] ELSE Returned(NoneVal),
               NoneVal)
    ELSE Ended(fs, Returned(NoneVal), text)

\* run after the draft is there, and saved when asked for (cli.py:393-405)
RunDraftSaved(saved, p, draft) ==
    IF saved.raised # "" THEN Ended(saved.fs, [raised |-> saved.raised], NoneVal)
    ELSE IF p.skip_check THEN RunOutput(saved.fs, p.output, draft)
    ELSE Waiting(saved.fs, CheckCallOf(saved.fs, draft, p.bundle_data, RunCheckKwargs), "check")

\* a variant that checks the draft whether or not skip-check was given
RunAfterGenerateAlwaysChecks(fs, p, answer) ==
    IF answer.raised # "" THEN Ended(fs, answer, NoneVal)
    ELSE RunDraftSaved(IF Truthy(p.draft_output) THEN WriteStr(fs, p.draft_output, answer.value)
                       ELSE [fs |-> fs, raised |-> ""],
                       [p EXCEPT !.skip_check = FALSE], answer.value)

\* run from the answer to the generator's call on (cli.py:385-405)
RunAfterGenerate(fs, p, answer) ==
    IF answer.raised # "" THEN Ended(fs, answer, NoneVal)
    ELSE RunDraftSaved(IF Truthy(p.draft_output) THEN WriteStr(fs, p.draft_output, answer.value)
                       ELSE [fs |-> fs, raised |-> ""],
                       p, answer.value)

\* run from the result of check_report on (cli.py:405-424)
RunAfterCheck(fs, p, result) ==
    IF result.raised # "" THEN Ended(fs, result, NoneVal)
    ELSE RunOutput(fs, p.output, result.value.report)

\* the characters of a file name in the order of their code points
CharOrder ==
    <<"-", ".", "1", "B", "_", "a", "b", "c", "d", "e", "j", "l", "n", "o", "s", "t", "u">>
CharRank(c) == CHOOSE i \in 1..Len(CharOrder) : CharOrder[i] = c

BundleSuffix == "_bundle.json"
BundleWord == "_bundle"

\* the characters of an atom of a file name
Spell(atom) ==
    IF atom = BundleSuffix THEN <<"_", "b", "u", "n", "d", "l", "e", ".", "j", "s", "o", "n">>
    ELSE IF atom = BundleWord THEN <<"_", "b", "u", "n", "d", "l", "e">>
    ELSE <<atom>>

RECURSIVE SpellName(_)
SpellName(name) == IF name = <<>> THEN <<>> ELSE Spell(Head(name)) \o SpellName(Tail(name))

\* a < b for file names, as sorted() compares them
NameLess(a, b) ==
    LET x == SpellName(a)
        y == SpellName(b)
    IN \E i \in 1..(Len(x) + 1) :
          /\ i <= Len(y)
          /\ \A j \in 1..(i - 1) : x[j] = y[j]
          /\ (i > Len(x) \/ CharRank(x[i]) < CharRank(y[i]))

\* sorted(names)
RECURSIVE SortedNames(_)
SortedNames(S) ==
    IF S = {} THEN <<>>
    ELSE LET m == CHOOSE x \in S : \A y \in S \ {x} : NameLess(x, y) IN
         <<m>> \o SortedNames(S \ {m})

\* the names of the files that are directly in dir
NamesIn(fs, dir) ==
    { SubSeq(path, Len(dir) + 2, Len(path)) :
        path \in { q \in (DOMAIN fs.json) \cup (DOMAIN fs.txt) \cup (DOMAIN fs.csv) :
                      /\ Len(q) > Len(dir) + 1
                      /\ SubSeq(q, 1, Len(dir) + 1) = dir \o <<"/">>
                      /\ \A i \in (Len(dir) + 2)..Len(q) : q[i] # "/" } }

\* sorted(bundles_path.glob("*_bundle.json")) (cli.py:456)
BundleFilesIn(fs, bundles_dir) ==
    SortedNames({ name \in NamesIn(fs, bundles_dir) : name[Len(name)] = BundleSuffix })

\* bundle_file.stem.replace("_bundle", "") (cli.py:469): the name without ".json"
\* and without any of its "_bundle"
TrackIdOfFile(name) ==
    SelectSeq(SubSeq(name, 1, Len(name) - 1) \o <<BundleWord>>, LAMBDA a : a # BundleWord)

\* output_path / f"{track_id}_report.md"
ReportPath(output, track_id) == PathJoin(output, track_id \o <<"_report.md">>)

\* generate-all at the head of its loop: the generator's call for bundle file k,
\* or the end of the command after the last one (cli.py:468-493)
GenerateAllBegin(fs, p, k) ==
    IF k > Len(p.bundle_files) THEN Ended(fs, Returned(NoneVal), NoneVal) @@ [k |-> k]
    ELSE Waiting(fs, GenerateCallOf(fs, LoadBundle(fs.json[PathJoin(p.bundles_dir, p.bundle_files[k])]),
                                    DefaultGenerateKwargs), "generate") @@ [k |-> k]

\* generate-all after the report of bundle file k is written
GenerateAllWritten(w, p) ==
    IF w.raised # "" THEN Ended(w.fs, [raised |-> w.raised], NoneVal) @@ [k |-> p.k]
    ELSE GenerateAllBegin(w.fs, p, p.k + 1)

\* generate-all from the answer to the generator's call on (cli.py:476-485)
GenerateAllAfterGenerate(fs, p, answer) ==
    IF answer.raised # "" THEN Ended(fs, answer, NoneVal) @@ [k |-> p.k]
    ELSE IF p.skip_check
    THEN GenerateAllWritten(
             WriteStr(fs, ReportPath(p.output, TrackIdOfFile(p.bundle_files[p.k])), answer.value), p)
    ELSE Waiting(fs, CheckCallOf(fs, answer.value,
                                 LoadBundle(fs.json[PathJoin(p.bundles_dir, p.bundle_files[p.k])]),
                                 DefaultCheckKwargs), "check") @@ [k |-> p.k]

\* generate-all from the result of check_report on (cli.py:485-491)
GenerateAllAfterCheck(fs, p, result) ==
    IF result.raised # "" THEN Ended(fs, result, NoneVal) @@ [k |-> p.k]
    ELSE GenerateAllWritten(
             WriteStr(fs, ReportPath(p.output, TrackIdOfFile(p.bundle_files[p.k])),
                      result.value.report), p)

-----------------------------------------------------------------------------
(* Specification SpecCli: one run or one generate-all command on a directory *)
(* of bundle files, the client answering each call with a text, with None or *)
(* with an exception                                                         *)

MaxBundleFiles == 2   \* bundle files in the bundles directory

\* a track whose id holds the word that ends the name of a bundle file
T3 == T1 \o <<BundleWord>>
CliTracks == {T1, T2, T3}

CliBundle(track_id) ==
    [track |-> [id |-> track_id, name |-> track_id, room |-> NoneVal],
     sessions |-> <<>>, sources |-> <<>>]

BundlesDir == <<"bundles">>
ReportsDir == <<"reports">>
FinalFile == PathJoin(ReportsDir, <<"final.md">>)
DraftOut == PathJoin(ReportsDir, <<"draft.md">>)

\* the bundle files as assemble_all_tracks writes them, one per track of S
BundleJsons(S) ==
    [path \in { BundlePath(BundlesDir, t) : t \in S } |->
        DumpBundle(CliBundle(CHOOSE t \in S : BundlePath(BundlesDir, t) = path))]

\* up to MaxBundleFiles bundle files and one other file in the bundles directory,
\* the prompts present or absent, no reports yet
CliFileSystems ==
    { [csv |-> <<>>,
       txt |-> prompts @@ (PathJoin(BundlesDir, <<"notes.txt">>) :> <<"n">>),
       json |-> BundleJsons(S),
       dirs |-> {BundlesDir}] :
        S \in { X \in SUBSET CliTracks : Cardinality(X) <= MaxBundleFiles },
        prompts \in { (PromptPath(MasterPromptName) :> MasterPrompt)
                          @@ (PromptPath(CheckerPromptName) :> CheckerPrompt),
                      <<>> } }

\* what the client answers the generator: a draft, an empty text, None (a response
\* whose content is null), or an exception
CliGenerateAnswers ==
    { Returned(<<"#", " ", "D">>), Returned(EmptyStr), Returned(NoneVal),
      [raised |-> "RuntimeError"] }

InitCli ==
    /\ files \in CliFileSystems
    /\ last = NoCall
    /\ LlmIdle /\ MergeIdle /\ FormatIdle

\* run up to the generator's client call (cli.py:362-386); click has checked that
\* the bundle file exists
RunStart ==
    \E bundle \in DOMAIN files.json, output \in {NoneVal, FinalFile},
       draft_output \in {NoneVal, DraftOut}, skip_check \in BOOLEAN, created \in BOOLEAN :
        /\ proc = NoCall /\ last.op = "none"
        /\ LET p == [op |-> "run", pc |-> "generate", bundle |-> bundle,
                     bundle_data |-> LoadBundle(files.json[bundle]), output |-> output,
                     draft_output |-> draft_output, skip_check |-> skip_check,
                     draft |-> NoneVal]
           IN \E step \in { IF created
                            THEN Waiting(files, GenerateCallOf(files, p.bundle_data,
                                                    [max_tokens |-> 8000, temperature |-> "0.3"]),
                                         "generate")
                            ELSE Ended(files, ConfigurationError, NoneVal) } :
                 /\ calls' = calls \o step.sent
                 /\ IF step.next = "done"
                    THEN /\ last' = [op |-> "run", bundle |-> bundle, output |-> output,
                                     draft_output |-> draft_output, skip_check |-> skip_check,
                                     ret |-> step.ret, out |-> step.out]
                         /\ UNCHANGED proc
                    ELSE proc' = p /\ UNCHANGED last
        /\ UNCHANGED <<files, config, client, mergeVars, fmtVars>>

\* the generator's call returns or raises; run goes on to the checker's call or
\* to its end
RunGenerated ==
    \E answer \in CliGenerateAnswers :
        /\ proc.op = "run" /\ proc.pc = "generate"
        /\ \E step \in { RunAfterGenerate(files, proc, answer) } :
              /\ files' = step.fs
              /\ calls' = [calls EXCEPT ![Len(calls)].outcome = answer] \o step.sent
              /\ IF step.next = "done"
                 THEN /\ last' = [op |-> "run", bundle |-> proc.bundle, output |-> proc.output,
                                  draft_output |-> proc.draft_output,
                                  skip_check |-> proc.skip_check,
                                  ret |-> step.ret, out |-> step.out]
                      /\ proc' = NoCall
                 ELSE /\ proc' = [proc EXCEPT !.pc = "check", !.draft = answer.value]
                      /\ UNCHANGED last
        /\ UNCHANGED <<config, client, mergeVars, fmtVars>>

\* the checker's call returns or raises; run ends
RunChecked ==
    \E answer \in CheckerAnswers :
        /\ proc.op = "run" /\ proc.pc = "check"
        /\ \E step \in { RunAfterCheck(files, proc, VerdictOf(answer)) } :
              /\ files' = step.fs
              /\ calls' = [calls EXCEPT ![Len(calls)].outcome = answer]
              /\ last' = [op |-> "run", bundle |-> proc.bundle, output |-> proc.output,
                          draft_output |-> proc.draft_output, skip_check |-> proc.skip_check,
                          ret |-> step.ret, out |-> step.out]
              /\ proc' = NoCall
        /\ UNCHANGED <<config, client, mergeVars, fmtVars>>

\* what generate-all ends with
GenerateAllEnd(p, step) ==
    [op |-> "generate_all", bundle_files |-> p.bundle_files, output |-> p.output,
     skip_check |-> p.skip_check, k |-> step.k, ret |-> step.ret]

\* generate-all up to the generator's call for the first bundle file (cli.py:445-476)
GenerateAllStart ==
    \E skip_check \in BOOLEAN, created \in BOOLEAN :
        /\ proc = NoCall /\ last.op = "none"
        /\ LET p == [op |-> "generate_all", pc |-> "generate", k |-> 1,
                     bundles_dir |-> BundlesDir,
                     bundle_files |-> BundleFilesIn(files, BundlesDir),
                     output |-> ReportsDir, skip_check |-> skip_check, draft |-> NoneVal]
           IN \E step \in { IF p.bundle_files = <<>>
                            THEN Ended(files, [raised |-> "SystemExit"], NoneVal) @@ [k |-> 0]
                            ELSE IF ~created
                            THEN Ended(files, ConfigurationError, NoneVal) @@ [k |-> 0]
                            ELSE GenerateAllBegin([files EXCEPT !.dirs = @ \cup {ReportsDir}],
                                                  p, 1) } :
                 /\ files' = step.fs
                 /\ calls' = calls \o step.sent
                 /\ IF step.next = "done"
                    THEN last' = GenerateAllEnd(p, step) /\ UNCHANGED proc
                    ELSE proc' = p /\ UNCHANGED last
        /\ UNCHANGED <<config, client, mergeVars, fmtVars>>

\* the generator's call for bundle file k returns or raises
GenerateAllGenerated ==
    \E answer \in CliGenerateAnswers :
        /\ proc.op = "generate_all" /\ proc.pc = "generate"
        /\ \E step \in { GenerateAllAfterGenerate(files, proc, answer) } :
              /\ files' = step.fs
              /\ calls' = [calls EXCEPT ![Len(calls)].outcome = answer] \o step.sent
              /\ IF step.next = "done"
                 THEN last' = GenerateAllEnd(proc, step) /\ proc' = NoCall
                 ELSE /\ proc' = [proc EXCEPT !.pc = step.next, !.k = step.k,
                                              !.draft = answer.value]
                      /\ UNCHANGED last
        /\ UNCHANGED <<config, client, mergeVars, fmtVars>>

\* the checker's call for bundle file k returns or raises
GenerateAllChecked ==
    \E answer \in CheckerAnswers :
        /\ proc.op = "generate_all" /\ proc.pc = "check"
        /\ \E step \in { GenerateAllAfterCheck(files, proc, VerdictOf(answer)) } :
              /\ files' = step.fs
              /\ calls' = [calls EXCEPT ![Len(calls)].outcome = answer] \o step.sent
              /\ IF step.next = "done"
                 THEN last' = GenerateAllEnd(proc, step) /\ proc' = NoCall
                 ELSE /\ proc' = [proc EXCEPT !.pc = step.next, !.k = step.k]
                      /\ UNCHANGED last
        /\ UNCHANGED <<config, client, mergeVars, fmtVars>>

NextCli ==
    \/ RunStart
    \/ RunGenerated
    \/ RunChecked
    \/ GenerateAllStart
    \/ GenerateAllGenerated
    \/ GenerateAllChecked

SpecCli == InitCli /\ [][NextCli]_vars

-----------------------------------------------------------------------------
(* Properties of run and generate-all, stated on the log of client calls and *)
(* on the files                                                               *)

\* the command under way or ended is run; its arguments
IsRun == proc.op = "run" \/ last.op = "run"
RunArgs == IF proc.op = "run" THEN proc ELSE last

RunEnded == last.op = "run"
RunSucceeded == RunEnded /\ last.ret.raised = ""

\* call number i of the log has returned a value
ReturnedAt(i) == i <= Len(calls) /\ calls[i].outcome.raised = ""

CheckCalls == { i \in 1..Len(calls) : calls[i].by = "check_report" }

\* the final output of the ended run: the output file, or what was echoed
FinalWritten == IF last.output = NoneVal THEN last.out # NoneVal ELSE last.output \in DOMAIN files.txt
FinalOutput == IF last.output = NoneVal THEN last.out ELSE files.txt[last.output]

\* the user message of the checker's call i holds the source text of the
\* generator's call g and the draft that call returned
ChecksDraftOf(i, g) ==
    calls[i].messages[2].content =
        <<CheckHead>> \o Tail(calls[g].messages[2].content)
            \o <<CheckMiddle>> \o Str(calls[g].outcome.value) \o <<CheckTail>>

\* C28: in run the generator's call has returned before the checker's call is made,
\* the checker's message holds the draft the generator returned and the rendering
\* of the same bundle, and the final output is the checked report; with skip-check
\* no checker call is made and the final output is the draft; when generation
\* fails no checker call is made and no final output is written
ThmC28 ==
    IsRun =>
        /\ \A i \in CheckCalls :
              /\ i = 2 /\ calls[1].by = "generate_report"
              /\ ReturnedAt(1)
              /\ Tail(calls[1].messages[2].content)
                     = format_track_bundle(LoadBundle(files.json[RunArgs.bundle]))
              /\ ChecksDraftOf(2, 1)
        /\ (RunSucceeded /\ ~last.skip_check) =>
              /\ Len(calls) = 2 /\ CheckCalls = {2} /\ ReturnedAt(2)
              /\ FinalWritten /\ FinalOutput = calls[2].outcome.value
        /\ RunArgs.skip_check => CheckCalls = {}
        /\ (RunSucceeded /\ last.skip_check) =>
              /\ Len(calls) = 1 /\ ReturnedAt(1)
              /\ FinalOutput = calls[1].outcome.value
        /\ (RunEnded /\ (calls = <<>> \/ ~ReturnedAt(1))) =>
              /\ CheckCalls = {}
              /\ ~FinalWritten
              /\ FinalFile \notin DOMAIN files.txt

\* a run with both output files has ended: the draft file holds the draft, the
\* final file the checker's answer with its flag
WitC28 ==
    /\ RunSucceeded /\ ~last.skip_check
    /\ last.output = FinalFile /\ last.draft_output = DraftOut
    /\ files.txt[DraftOut] = <<"#", " ", "D">>
    /\ files.txt[FinalFile] = CheckAnswer(1, -1, "")
    /\ Len(calls) = 2

\* the command under way or ended is generate-all; its arguments
IsBatch == proc.op = "generate_all" \/ last.op = "generate_all"
BatchArgs == IF proc.op = "generate_all" THEN proc ELSE last
BatchEnded == last.op = "generate_all"

\* the bundle file a call of the log is for, and the calls made per bundle file
CallsPerBundle == IF BatchArgs.skip_check THEN 1 ELSE 2
BundleOfCall(i) == ((i - 1) \div CallsPerBundle) + 1

\* the track id a bundle file is named after: its name without "_bundle.json"
NamedTrack(name) == SubSeq(name, 1, Len(name) - 1)
ReportNamed(track_id) == PathJoin(ReportsDir, track_id \o <<"_report.md">>)

\* the report files of the output directory
Reports == { PathJoin(ReportsDir, n) : n \in NamesIn(files, ReportsDir) }

\* the calls of the log go through the bundle files in sorted order, the generator's
\* call for a file, then the checker's on the draft it returned
BatchCallsInOrder ==
    LET B == BatchArgs.bundle_files IN
    /\ \A i, j \in 1..Len(B) : i < j => NameLess(B[i], B[j])
    /\ Range(B) = { n \in NamesIn(files, BundlesDir) : n[Len(n)] = BundleSuffix }
    /\ \A i \in 1..Len(calls) :
          /\ BundleOfCall(i) <= Len(B)
          /\ i < Len(calls) => ReturnedAt(i)
          /\ IF (i - 1) % CallsPerBundle = 0
             THEN /\ calls[i].by = "generate_report"
                  /\ Tail(calls[i].messages[2].content) =
                        format_track_bundle(
                            LoadBundle(files.json[PathJoin(BundlesDir, B[BundleOfCall(i)])]))
             ELSE /\ calls[i].by = "check_report"
                  /\ ChecksDraftOf(i, i - 1)

\* the text generate-all writes for bundle file j: the checker's answer, or the
\* draft with skip-check
ReportTextOf(j) == calls[j * CallsPerBundle].outcome.value

\* the write of a report raised: the client had answered None (no call failed)
WriteFailed == BatchEnded /\ last.ret.raised = "TypeError"

\* C29 (as claimed): generate-all takes the bundle files in sorted order; when the
\* generator's call for a bundle file is made, the calls and the
\* '<track_id>_report.md' of every earlier bundle file are done; on success there
\* is exactly one report file per bundle file, and after a failure at bundle file k
\* there are the reports of the files before k and no other
CexC29 ==
    (IsBatch /\ ~WriteFailed) =>
        LET B == BatchArgs.bundle_files
            done == IF BatchEnded
                    THEN (IF last.ret.raised = "" THEN Len(B) ELSE IF last.k = 0 THEN 0 ELSE last.k - 1)
                    ELSE proc.k - 1
        IN /\ BatchCallsInOrder
           /\ \A j \in 1..done :
                 /\ ReportNamed(NamedTrack(B[j])) \in DOMAIN files.txt
                 /\ files.txt[ReportNamed(NamedTrack(B[j]))] = ReportTextOf(j)
           /\ Reports = { ReportNamed(NamedTrack(B[j])) : j \in 1..done }
           /\ Cardinality(Reports) = done

\* the track id generate-all makes of the name of a bundle file: the name without
\* ".json" and without every "_bundle" in it
SqueezedTrack(name) == SelectSeq(NamedTrack(name), LAMBDA a : a # BundleWord)

\* what does hold: the calls are in order, and the reports written are those named
\* after the squeezed names of the bundle files done, each holding the text of the
\* last bundle file with that squeezed name
SequentialBatch ==
    (IsBatch /\ ~WriteFailed) =>
        LET B == BatchArgs.bundle_files
            done == IF BatchEnded
                    THEN (IF last.ret.raised = "" THEN Len(B) ELSE IF last.k = 0 THEN 0 ELSE last.k - 1)
                    ELSE proc.k - 1
        IN /\ BatchCallsInOrder
           /\ Reports = { ReportNamed(SqueezedTrack(B[j])) : j \in 1..done }
           /\ \A j \in 1..done :
                 (\A m \in (j + 1)..done : SqueezedTrack(B[m]) # SqueezedTrack(B[j]))
                     => files.txt[ReportNamed(SqueezedTrack(B[j]))] = ReportTextOf(j)

====
